---- MODULE Spec2Model ----
(***************************************************************************)
(* A model of the bit-level core of the barcode decoder:                   *)
(*   BitSource  (src/src/core/core/common/BitSource.ts)                    *)
(*   BitMatrix  (src/src/core/core/common/BitMatrix.ts)                    *)
(*   GridSampler, DefaultGridSampler and PerspectiveTransform              *)
(*              (src/src/core/core/common/)                                *)
(*   GridSamplerInstance                                                   *)
(*              (src/src/core/core/common/GridSamplerInstance.ts)          *)
(*                                                                         *)
(* A 32-bit word (an element of an Int32Array, or the int a bitwise        *)
(* operator of the source yields) is modelled as the set of its one-bit    *)
(* positions, a subset of 0..31, position 0 being the least significant    *)
(* bit.  |, & and ^ are then union, intersection and symmetric difference, *)
(* and the shifts move positions and drop those that leave 0..31.          *)
(***************************************************************************)
EXTENDS Integers, Sequences, FiniteSets, TLC

VARIABLES
    bytes,        \* BitSource.bytes: the Uint8Array, a sequence of 0..255
    byteOffset,   \* BitSource.byteOffset
    bitOffset,    \* BitSource.bitOffset
    bsRet,        \* the last BitSource call: its arguments, outcome, and the cursor before it
    readLog,      \* the bits returned by the successful readBits calls so far, in order
    matrix,       \* a BitMatrix: its fields width, height, rowSize and bits (the Int32Array)
    bmRet,        \* the last BitMatrix call: its arguments, outcome, and the matrix before it
    calls,        \* the number of BitMatrix calls made on the matrix
    objects,      \* the BitMatrix objects of the heap: id -> width, height, rowSize and the
                  \* id of the Int32Array the field bits refers to
    buffers,      \* the Int32Arrays of the heap: id -> the words
    hpRet,        \* the last call on the objects of the heap, and the heap before it
    text,         \* the string representation in hand, a sequence of characters
    tokens,       \* the setString and unsetString in use
    parsed,       \* the outcome of the last parseFromString call
    gridSampler,  \* GridSamplerInstance.gridSampler, the static field: the sampler installed
    giRet         \* the last call on GridSamplerInstance, the sampler installed before it,
                  \* and the samplers handed to setGridSampler so far, in order

bsVars == <<bytes, byteOffset, bitOffset, bsRet, readLog>>

bmVars == <<matrix, bmRet, calls>>

hpVars == <<objects, buffers, hpRet>>

txVars == <<text, tokens, parsed>>

vars == <<bsVars, bmVars, hpVars, txVars, gridSampler, giRet>>

-----------------------------------------------------------------------------
(* Bounds of the model *)

\* the longest byte buffer a BitSource is constructed over
MaxLen == 5

\* the widest matrix (three words a row) and the tallest
MaxWidth == 66
MaxHeight == 3

\* the most calls made on one matrix
MaxCalls == 3

\* the longest string a caller hands to parseFromString
MaxText == 4

\* the most calls made on the matrices of the heap
MaxHeapCalls == 3

\* the most calls made on the grid sampler
MaxSamplings == 1

\* the most points in a batch handed to checkAndNudgePoints
MaxBatch == 3

\* the most calls made on GridSamplerInstance
MaxInstanceCalls == 3

-----------------------------------------------------------------------------
(* 32-bit words *)

WordBits == 32

BitPos == 0 .. (WordBits - 1)

RECURSIVE Pow2Rec(_)
Pow2Rec(n) == IF n <= 0 THEN 1 ELSE 2 * Pow2Rec(n - 1)

\* the powers of two an int holds, tabulated
Pow2Tab == [n \in 0 .. 30 |-> Pow2Rec(n)]

Pow2(n) == Pow2Tab[n]

\* the word of a non-negative int below 2^31
ToWord(n) == {i \in 0 .. 30 : (n \div Pow2(i)) % 2 = 1}

RECURSIVE FromWord(_)
\* the non-negative int of a word whose bit 31 is clear
FromWord(w) == IF w = {} THEN 0
               ELSE LET i == CHOOSE j \in w : TRUE IN Pow2(i) + FromWord(w \ {i})

\* a << k and a >>> k on 32-bit words
Shl(w, k) == {i + k : i \in w} \cap BitPos
Shr(w, k) == {i - k : i \in w} \cap BitPos

\* a & b, a | b, a ^ b
WAnd(a, b) == a \cap b
WOr(a, b) == a \cup b
WXor(a, b) == (a \ b) \cup (b \ a)

\* a & b on small non-negative ints
IntAnd(a, b) == FromWord(WAnd(ToWord(a), ToWord(b)))

-----------------------------------------------------------------------------
(* BitSource *)

\* bytes[i] & m, with the JavaScript reading of an index past the end (undefined & m = 0)
ByteAt(b, i) == IF i >= 0 /\ i < Len(b) THEN b[i + 1] ELSE 0

\* available() counting whole bytes only
Available_Bytes(b, byOff, biOff) == 8 * (Len(b) - byOff)

\* BitSource.available()
Available(b, byOff, biOff) == 8 * (Len(b) - byOff) - biOff

\* ReadCurrentByte without the carry of lines 96-99 (bitOffset may be left at 8)
ReadCurrentByte_NoCarry(b, st) ==
    IF st.bitOffset > 0
    THEN LET bitsLeft == 8 - st.bitOffset
             toRead == IF st.numBits < bitsLeft THEN st.numBits ELSE bitsLeft
             bitsToNotRead == bitsLeft - toRead
             mask == (255 \div Pow2(8 - toRead)) * Pow2(bitsToNotRead)
             res == IntAnd(ByteAt(b, st.byteOffset), mask) \div Pow2(bitsToNotRead)
         IN [result |-> ToWord(res),
             numBits |-> st.numBits - toRead,
             bitOffset |-> st.bitOffset + toRead,
             byteOffset |-> st.byteOffset]
    ELSE st

\* readBits, lines 86-100: the remainder of the current byte
ReadCurrentByte(b, st) ==
    IF st.bitOffset > 0
    THEN LET bitsLeft == 8 - st.bitOffset
             toRead == IF st.numBits < bitsLeft THEN st.numBits ELSE bitsLeft
             bitsToNotRead == bitsLeft - toRead
             mask == (255 \div Pow2(8 - toRead)) * Pow2(bitsToNotRead)
             res == IntAnd(ByteAt(b, st.byteOffset), mask) \div Pow2(bitsToNotRead)
             bo == st.bitOffset + toRead
         IN [result |-> ToWord(res),
             numBits |-> st.numBits - toRead,
             bitOffset |-> IF bo = 8 THEN 0 ELSE bo,
             byteOffset |-> IF bo = 8 THEN st.byteOffset + 1 ELSE st.byteOffset]
    ELSE st

RECURSIVE ReadWholeBytes_NoAdvance(_, _)
\* ReadWholeBytes without the byteOffset++ of line 108
ReadWholeBytes_NoAdvance(b, st) ==
    IF st.numBits >= 8
    THEN ReadWholeBytes_NoAdvance(b,
            [st EXCEPT !.result = WOr(Shl(st.result, 8), ToWord(IntAnd(ByteAt(b, st.byteOffset), 255))),
                       !.numBits = st.numBits - 8])
    ELSE st

RECURSIVE ReadWholeBytes(_, _)
\* readBits, lines 106-110: while (numBits >= 8)
ReadWholeBytes(b, st) ==
    IF st.numBits >= 8
    THEN ReadWholeBytes(b,
            [st EXCEPT !.result = WOr(Shl(st.result, 8), ToWord(IntAnd(ByteAt(b, st.byteOffset), 255))),
                       !.byteOffset = st.byteOffset + 1,
                       !.numBits = st.numBits - 8])
    ELSE st

\* ReadPartialByte without the >> bitsToNotRead of line 118
ReadPartialByte_NoShift(b, st) ==
    IF st.numBits > 0
    THEN LET bitsToNotRead == 8 - st.numBits
             mask == (255 \div Pow2(bitsToNotRead)) * Pow2(bitsToNotRead)
         IN [st EXCEPT !.result = WOr(Shl(st.result, st.numBits),
                                      ToWord(IntAnd(ByteAt(b, st.byteOffset), mask))),
                       !.bitOffset = st.bitOffset + st.numBits]
    ELSE st

\* readBits, lines 114-120: the final partial byte
ReadPartialByte(b, st) ==
    IF st.numBits > 0
    THEN LET bitsToNotRead == 8 - st.numBits
             mask == (255 \div Pow2(bitsToNotRead)) * Pow2(bitsToNotRead)
         IN [st EXCEPT !.result = WOr(Shl(st.result, st.numBits),
                                      ToWord(IntAnd(ByteAt(b, st.byteOffset), mask) \div Pow2(bitsToNotRead))),
                       !.bitOffset = st.bitOffset + st.numBits]
    ELSE st

\* the guard of line 74 without its comparison against available()
ReadBitsRejects_RangeOnly(b, byOff, biOff, numBits) ==
    numBits < 1 \/ numBits > 32

\* the guard of readBits, line 74
ReadBitsRejects(b, byOff, biOff, numBits) ==
    numBits < 1 \/ numBits > 32 \/ numBits > Available(b, byOff, biOff)

\* BitSource.readBits(numBits): what it throws or returns, and the cursor it leaves
ReadBits(b, byOff, biOff, numBits) ==
    IF ReadBitsRejects(b, byOff, biOff, numBits)
    THEN [threw |-> "IllegalArgumentException", result |-> {},
          byteOffset |-> byOff, bitOffset |-> biOff]
    ELSE LET s0 == [result |-> {}, numBits |-> numBits, bitOffset |-> biOff, byteOffset |-> byOff]
             s1 == ReadCurrentByte(b, s0)
             s2 == IF s1.numBits > 0 THEN ReadPartialByte(b, ReadWholeBytes(b, s1)) ELSE s1
         IN [threw |-> "none", result |-> s2.result,
             byteOffset |-> s2.byteOffset, bitOffset |-> s2.bitOffset]

\* the low n bits of a word, most significant first, as a sequence of 0/1
WordToBits(w, n) == [k \in 1 .. n |-> IF (n - k) \in w THEN 1 ELSE 0]

-----------------------------------------------------------------------------
(* BitArray: the row buffer BitMatrix.getRow, xor and rotate180 use.  Its source,     *)
(* common/BitArray.ts, is not among the files; it is modelled from the specification: *)
(* a bit sequence of `size` bits packed 32 to a word, least significant bit first.    *)

ZeroWords(n) == [k \in 1 .. n |-> {}]

\* bits[i] of an Int32Array, a read past the end giving undefined, which the bitwise
\* operators take as 0
WordAt(ws, i) == IF i >= 0 /\ i < Len(ws) THEN ws[i + 1] ELSE {}

\* bits[i] = w on an Int32Array, a write past the end being ignored
StoreWord(ws, i, w) == IF i >= 0 /\ i < Len(ws) THEN [ws EXCEPT ![i + 1] = w] ELSE ws

\* new BitArray(size)
NewBitArray(size) == [size |-> size, bits |-> ZeroWords((size + 31) \div 32)]

\* BitArray.clear()
ClearBitArray(row) == [row EXCEPT !.bits = ZeroWords(Len(row.bits))]

\* BitArray.setBulk(i, newBits)
SetBulk(row, i, newBits) == [row EXCEPT !.bits = StoreWord(row.bits, i \div 32, newBits)]

\* bit i of a BitArray
BitArrayGet(row, i) == (i % 32) \in WordAt(row.bits, i \div 32)

\* BitArray.reverse(): bit i becomes bit size-1-i
ReverseBitArray(row) ==
    [row EXCEPT !.bits = [k \in 1 .. Len(row.bits) |->
        {b \in BitPos : /\ 32 * (k - 1) + b < row.size
                        /\ BitArrayGet(row, row.size - 1 - (32 * (k - 1) + b))}]]

-----------------------------------------------------------------------------
(* BitMatrix *)

\* no BitMatrix constructed
NoMatrix == [width |-> 0, height |-> 0, rowSize |-> 0, bits |-> <<>>]

\* the test of the constructor, line 76
ConstructorRejects(width, height) == width < 1 \/ height < 1

\* new BitMatrix(width, height, rowSize), lines 70-86, for width, height >= 1
NewBitMatrixRowSize(width, height, rowSize) ==
    [width |-> width, height |-> height, rowSize |-> rowSize,
     bits |-> ZeroWords(rowSize * height)]

\* new BitMatrix(width, height): rowSize = Math.floor((width + 31) / 32)
NewBitMatrix(width, height) == NewBitMatrixRowSize(width, height, (width + 31) \div 32)

\* the word index of get, set, unset and flip: y * rowSize + Math.floor(x / 32)
WordIndex_NoRowSize(m, x, y) == y + (x \div 32)

WordIndex(m, x, y) == y * m.rowSize + (x \div 32)

\* (1 << (x & 0x1f)) & 0xFFFFFFFF, for x >= 0
BitMask(x) == WAnd(Shl({0}, x % 32), BitPos)

\* BitMatrix.get(x, y)
Get(m, x, y) == WAnd(Shr(WordAt(m.bits, WordIndex(m, x, y)), x % 32), {0}) # {}

\* bits[offset] |= mask, line 191
SetWord(w, x) == WOr(w, BitMask(x))

\* bits[offset] &= ~mask, line 196
UnsetWord(w, x) == WAnd(w, BitPos \ BitMask(x))

\* bits[offset] ^= mask, written as |=
FlipWord_Or(w, x) == WOr(w, BitMask(x))

\* bits[offset] ^= mask, line 208
FlipWord(w, x) == WXor(w, BitMask(x))

\* BitMatrix.set(x, y)
Set(m, x, y) ==
    [m EXCEPT !.bits = StoreWord(m.bits, WordIndex(m, x, y),
                                 SetWord(WordAt(m.bits, WordIndex(m, x, y)), x))]

\* BitMatrix.unset(x, y)
Unset(m, x, y) ==
    [m EXCEPT !.bits = StoreWord(m.bits, WordIndex(m, x, y),
                                 UnsetWord(WordAt(m.bits, WordIndex(m, x, y)), x))]

\* BitMatrix.flip(x, y)
Flip(m, x, y) ==
    [m EXCEPT !.bits = StoreWord(m.bits, WordIndex(m, x, y),
                                 FlipWord(WordAt(m.bits, WordIndex(m, x, y)), x))]

RECURSIVE ParseRow(_, _, _, _)
\* parseFromBooleanArray, lines 101-105: for j, if (imageI[j]) bits.set(j, i)
ParseRow(m, imageI, i, j) ==
    IF j >= m.width THEN m
    ELSE ParseRow(IF imageI[j] THEN Set(m, j, i) ELSE m, imageI, i, j + 1)

RECURSIVE ParseLoop(_, _, _)
\* parseFromBooleanArray, lines 99-106: for i
ParseLoop(m, image, i) ==
    IF i >= m.height THEN m
    ELSE ParseLoop(ParseRow(m, image[i], i, 0), image, i + 1)

\* BitMatrix.parseFromBooleanArray(image), image[i][j] being row i, column j:
\* height = image.length, width = image[0].length
ParseFromBooleanArray(image) ==
    ParseLoop(NewBitMatrix(Cardinality(DOMAIN image[0]), Cardinality(DOMAIN image)), image, 0)

\* the line breaks parseFromString knows, line 123
LineBreaks == {"\n", "\r"}

\* stringRepresentation.substring(from, to): the characters from..to-1, to clipped to the length
Substring(str, from, to) == SubSeq(str, from + 1, IF to > Len(str) THEN Len(str) ELSE to)

\* lines 125-133: a line break met, bitsPos being the length of bits
ParseRowEnd(st) ==
    IF Len(st.bits) > st.rowStartPos
    THEN IF st.rowLength # -1 /\ Len(st.bits) - st.rowStartPos # st.rowLength
         THEN [st EXCEPT !.threw = "IllegalArgumentException"]
         ELSE [st EXCEPT !.rowLength = Len(st.bits) - st.rowStartPos,
                         !.rowStartPos = Len(st.bits),
                         !.nRows = st.nRows + 1]
    ELSE st

\* lines 150-157 with the comparison against rowLength left out
ParseLastRow_NoCheck(st) ==
    IF st.threw = "none" /\ Len(st.bits) > st.rowStartPos
    THEN [st EXCEPT !.rowLength = IF st.rowLength = -1 THEN Len(st.bits) - st.rowStartPos
                                  ELSE st.rowLength,
                    !.nRows = st.nRows + 1]
    ELSE st

\* lines 150-157: the last row, when no line break ends the string
ParseLastRow(st) ==
    IF st.threw = "none" /\ Len(st.bits) > st.rowStartPos
    THEN IF st.rowLength # -1 /\ Len(st.bits) - st.rowStartPos # st.rowLength
         THEN [st EXCEPT !.threw = "IllegalArgumentException"]
         ELSE [st EXCEPT !.rowLength = Len(st.bits) - st.rowStartPos,
                         !.nRows = st.nRows + 1]
    ELSE st

\* lines 123-146: one pass of the loop, at a position inside the string
ParseStep(str, setString, unsetString, st) ==
    IF str[st.pos + 1] \in LineBreaks
    THEN [ParseRowEnd(st) EXCEPT !.pos = st.pos + 1]
    ELSE IF Substring(str, st.pos, st.pos + Len(setString)) = setString
    THEN [st EXCEPT !.pos = st.pos + Len(setString), !.bits = Append(st.bits, TRUE)]
    ELSE IF Substring(str, st.pos, st.pos + Len(unsetString)) = unsetString
    THEN [st EXCEPT !.pos = st.pos + Len(unsetString), !.bits = Append(st.bits, FALSE)]
    ELSE [st EXCEPT !.threw = "IllegalArgumentException"]

RECURSIVE ParseChars(_, _, _, _)
\* lines 122-147: while (pos < stringRepresentation.length), left by a throw
ParseChars(str, setString, unsetString, st) ==
    IF st.threw # "none" \/ st.pos >= Len(str) THEN st
    ELSE ParseChars(str, setString, unsetString, ParseStep(str, setString, unsetString, st))

\* line 162: matrix.set(Math.floor(i % rowLength), Math.floor(i / rowLength)) if bits[i]
ParseSetBit(m, bits, rowLength, i) ==
    IF bits[i + 1] THEN Set(m, i % rowLength, i \div rowLength) ELSE m

RECURSIVE ParseSetBits(_, _, _, _)
\* lines 160-164: for (let i = 0; i < bitsPos; i++), the matrix after each pass being
\* computed before the next pass begins
ParseSetBits(m, bits, rowLength, i) ==
    IF i >= Len(bits) THEN m
    ELSE CHOOSE r \in {ParseSetBits(next, bits, rowLength, i + 1) :
                           next \in {ParseSetBit(m, bits, rowLength, i)}} : TRUE

\* BitMatrix.parseFromString(stringRepresentation, setString, unsetString), for tokens
\* that are not empty: what it throws, or the matrix it returns
ParseFromString(str, setString, unsetString) ==
    LET st == ParseLastRow(ParseChars(str, setString, unsetString,
                  [bits |-> <<>>, rowStartPos |-> 0, rowLength |-> -1, nRows |-> 0,
                   pos |-> 0, threw |-> "none"]))
    IN IF st.threw # "none" THEN [threw |-> st.threw, matrix |-> NoMatrix]
       ELSE IF ConstructorRejects(st.rowLength, st.nRows)
       THEN [threw |-> "IllegalArgumentException", matrix |-> NoMatrix]
       ELSE [threw |-> "none",
             matrix |-> ParseSetBits(NewBitMatrix(st.rowLength, st.nRows), st.bits,
                                     st.rowLength, 0)]

RECURSIVE ToStringCells(_, _, _, _, _)
\* buildToString, lines 523-525: the cells of row y from column x on
ToStringCells(m, setString, unsetString, y, x) ==
    IF x >= m.width THEN <<>>
    ELSE (IF Get(m, x, y) THEN setString ELSE unsetString)
         \o ToStringCells(m, setString, unsetString, y, x + 1)

\* buildToString, lines 522-527, with no line separator after a row
ToStringRow_NoSeparator(m, setString, unsetString, lineSeparator, y) ==
    ToStringCells(m, setString, unsetString, y, 0)

\* buildToString, lines 522-527: a row and the line separator after it
ToStringRow(m, setString, unsetString, lineSeparator, y) ==
    ToStringCells(m, setString, unsetString, y, 0) \o lineSeparator

RECURSIVE ToStringRows(_, _, _, _, _)
ToStringRows(m, setString, unsetString, lineSeparator, y) ==
    IF y >= m.height THEN <<>>
    ELSE ToStringRow(m, setString, unsetString, lineSeparator, y)
         \o ToStringRows(m, setString, unsetString, lineSeparator, y + 1)

\* BitMatrix.toString(setString, unsetString, lineSeparator), that is buildToString
BuildToString(m, setString, unsetString, lineSeparator) ==
    lineSeparator \o ToStringRows(m, setString, unsetString, lineSeparator, 0)

RECURSIVE GetRowLoop(_, _, _, _)
\* getRow, lines 298-300
GetRowLoop(m, y, row, x) ==
    IF x >= m.rowSize THEN row
    ELSE GetRowLoop(m, y, SetBulk(row, x * 32, WordAt(m.bits, y * m.rowSize + x)), x + 1)

\* BitMatrix.getRow(y, row)
GetRow(m, y, row) ==
    GetRowLoop(m, y, IF row.size < m.width THEN NewBitArray(m.width) ELSE ClearBitArray(row), 0)

\* BitMatrix.setRow(y, row): System.arraycopy(row.getBitArray(), 0, bits, y * rowSize, rowSize)
SetRow(m, y, row) ==
    [m EXCEPT !.bits = [k \in 1 .. Len(m.bits) |->
        IF k - 1 >= y * m.rowSize /\ k - 1 < y * m.rowSize + m.rowSize
        THEN WordAt(row.bits, k - 1 - y * m.rowSize) ELSE m.bits[k]]]

\* the test of xor, lines 219-220, with the height left out
XorRejects_NoHeight(m, mask) ==
    m.width # mask.width \/ m.rowSize # mask.rowSize

\* the test of xor, lines 219-220
XorRejects(m, mask) ==
    m.width # mask.width \/ m.height # mask.height \/ m.rowSize # mask.rowSize

\* xor, lines 223-232, with every row of this matrix combined with row 0 of the mask
XorRows_FirstRow(m, mask) ==
    LET rowArray == NewBitArray((m.width \div 32) + 1)
    IN [m EXCEPT !.bits = [k \in 1 .. Len(m.bits) |->
            WXor(m.bits[k],
                 WordAt(GetRow(mask, 0, rowArray).bits, (k - 1) % m.rowSize))]]

\* xor, lines 223-232: word x of row y of this matrix ^= word x of getRow(y) of the mask
XorRows(m, mask) ==
    LET rowArray == NewBitArray((m.width \div 32) + 1)
    IN [m EXCEPT !.bits = [k \in 1 .. Len(m.bits) |->
            WXor(m.bits[k],
                 WordAt(GetRow(mask, (k - 1) \div m.rowSize, rowArray).bits,
                        (k - 1) % m.rowSize))]]

\* BitMatrix.xor(mask): what it throws, and the two matrices after the call
Xor(m, mask) ==
    IF XorRejects(m, mask)
    THEN [threw |-> "IllegalArgumentException", this |-> m, mask |-> mask]
    ELSE [threw |-> "none", this |-> XorRows(m, mask), mask |-> mask]

\* the number of passes of the loop of rotate180, taken as Math.floor(height / 2)
RotatePasses_HalfDown(height) == height \div 2

\* the number of passes of the loop of rotate180, line 323
RotatePasses(height) == (height + 1) \div 2

\* one pass of the loop of rotate180, lines 324-329
RotateStep(m, i) ==
    LET row0 == NewBitArray(m.width)
        topRow == ReverseBitArray(GetRow(m, i, row0))
        bottomRow == ReverseBitArray(GetRow(m, m.height - 1 - i, row0))
    IN SetRow(SetRow(m, i, bottomRow), m.height - 1 - i, topRow)

RECURSIVE RotateLoop(_, _)
RotateLoop(m, i) ==
    IF i >= RotatePasses(m.height) THEN m ELSE RotateLoop(RotateStep(m, i), i + 1)

\* BitMatrix.rotate180()
Rotate180(m) == RotateLoop(m, 0)

RECURSIVE LowestBit(_, _)
\* lines 361-364: while (((theBits << (31 - bit)) & 0xFFFFFFFF) === 0) bit++
LowestBit(theBits, bit) ==
    IF WAnd(Shl(theBits, 31 - bit), BitPos) = {} THEN LowestBit(theBits, bit + 1) ELSE bit

RECURSIVE HighestBit(_, _)
\* lines 370-373: while ((theBits >>> bit) === 0) bit--
HighestBit(theBits, bit) ==
    IF Shr(theBits, bit) = {} THEN HighestBit(theBits, bit - 1) ELSE bit

\* lines 369-377 with the bit scan left out: the word's last column taken as the right edge
ScanRight_WholeWord(acc, theBits, x32) ==
    IF x32 * 32 + 31 > acc.right THEN x32 * 32 + 31 ELSE acc.right

\* lines 369-377: the right edge after the word x32 of a row
ScanRight(acc, theBits, x32) ==
    IF x32 * 32 + 31 > acc.right
    THEN LET bit == HighestBit(theBits, 31)
         IN IF x32 * 32 + bit > acc.right THEN x32 * 32 + bit ELSE acc.right
    ELSE acc.right

\* lines 360-368: the left edge after the word x32 of a row
ScanLeft(acc, theBits, x32) ==
    IF x32 * 32 < acc.left
    THEN LET bit == LowestBit(theBits, 0)
         IN IF x32 * 32 + bit < acc.left THEN x32 * 32 + bit ELSE acc.left
    ELSE acc.left

\* lines 352-378: the body of the two loops for the word x32 of row y
ScanWord(m, acc, y, x32) ==
    LET theBits == WordAt(m.bits, y * m.rowSize + x32)
    IN IF theBits # {}
       THEN [left |-> ScanLeft(acc, theBits, x32),
             top |-> IF y < acc.top THEN y ELSE acc.top,
             right |-> ScanRight(acc, theBits, x32),
             bottom |-> IF y > acc.bottom THEN y ELSE acc.bottom]
       ELSE acc

RECURSIVE ScanLoop(_, _, _)
\* lines 350-380: for y, for x32, as one loop over k = y * rowSize + x32
ScanLoop(m, acc, k) ==
    IF k >= m.height * m.rowSize THEN acc
    ELSE ScanLoop(m, ScanWord(m, acc, k \div m.rowSize, k % m.rowSize), k + 1)

\* BitMatrix.getEnclosingRectangle(): null, written <<>>, or <<left, top, width, height>>
GetEnclosingRectangle(m) ==
    LET acc == ScanLoop(m, [left |-> m.width, top |-> m.height, right |-> -1, bottom |-> -1], 0)
    IN IF acc.right < acc.left \/ acc.bottom < acc.top
       THEN <<>>
       ELSE <<acc.left, acc.top, acc.right - acc.left + 1, acc.bottom - acc.top + 1>>

\* BitMatrix.clear(), lines 239-245
Clear(m) == [m EXCEPT !.bits = [k \in 1 .. Len(m.bits) |-> {}]]

\* BitMatrix.equals(o), o being a BitMatrix: Arrays.equals compares the arrays' lengths
\* and elements
Equals(m, o) ==
    m.width = o.width /\ m.height = o.height /\ m.rowSize = o.rowSize /\ m.bits = o.bits

\* the tests of setRegion, lines 257-267, without the test that the region fits
SetRegionRejects_NoFit(m, left, top, width, height) ==
    top < 0 \/ left < 0 \/ height < 1 \/ width < 1

\* the tests of setRegion, lines 257-267
SetRegionRejects(m, left, top, width, height) ==
    \/ top < 0 \/ left < 0
    \/ height < 1 \/ width < 1
    \/ top + height > m.height \/ left + width > m.width

\* offset + Math.floor(x / 32) with the column's word left out
RegionWordIndex_NoColumn(m, x, y) == y * m.rowSize

\* lines 271 and 274: offset + Math.floor(x / 32), offset = y * rowSize
RegionWordIndex(m, x, y) == y * m.rowSize + (x \div 32)

\* line 274 setting the whole word of column x
SetRegionBit_WholeWord(m, x, y) ==
    [m EXCEPT !.bits = StoreWord(m.bits, RegionWordIndex(m, x, y), 0 .. 31)]

\* line 274: bits[offset + Math.floor(x / 32)] |= ((1 << (x & 0x1f)) & 0xFFFFFFFF)
SetRegionBit(m, x, y) ==
    [m EXCEPT !.bits = StoreWord(m.bits, RegionWordIndex(m, x, y),
                                 WOr(WordAt(m.bits, RegionWordIndex(m, x, y)), BitMask(x)))]

RECURSIVE SetRegionRow(_, _, _, _)
\* lines 272-275: for (let x = left; x < right; x++), the matrix after each pass being
\* computed before the next pass begins
SetRegionRow(m, y, x, right) ==
    IF x >= right THEN m
    ELSE CHOOSE r \in {SetRegionRow(next, y, x + 1, right) : next \in {SetRegionBit(m, x, y)}} : TRUE

RECURSIVE SetRegionRows(_, _, _, _, _)
\* lines 270-276: for (let y = top; y < bottom; y++)
SetRegionRows(m, left, right, y, bottom) ==
    IF y >= bottom THEN m
    ELSE SetRegionRows(SetRegionRow(m, y, left, right), left, right, y + 1, bottom)

\* BitMatrix.setRegion(left, top, width, height): what it throws, and the matrix after it
SetRegion(m, left, top, width, height) ==
    IF SetRegionRejects(m, left, top, width, height)
    THEN [threw |-> "IllegalArgumentException", this |-> m]
    ELSE [threw |-> "none",
          this |-> SetRegionRows(m, left, left + width, top, top + height)]

RECURSIVE FirstNonZero(_, _)
\* getTopLeftOnBit, lines 400-403: while (bitsOffset < bits.length && bits[bitsOffset] === 0)
FirstNonZero(bits, bitsOffset) ==
    IF bitsOffset < Len(bits) /\ WordAt(bits, bitsOffset) = {}
    THEN FirstNonZero(bits, bitsOffset + 1) ELSE bitsOffset

RECURSIVE LastNonZero(_, _)
\* getBottomRightOnBit, lines 426-429: while (bitsOffset >= 0 && bits[bitsOffset] === 0)
LastNonZero(bits, bitsOffset) ==
    IF bitsOffset >= 0 /\ WordAt(bits, bitsOffset) = {}
    THEN LastNonZero(bits, bitsOffset - 1) ELSE bitsOffset

\* the column of bit 0 of the word, taken as bitsOffset * 32
WordColumn_NoModulo(m, bitsOffset) == bitsOffset * 32

\* lines 410 and 435: x = (bitsOffset % rowSize) * 32
WordColumn(m, bitsOffset) == (bitsOffset % m.rowSize) * 32

\* BitMatrix.getTopLeftOnBit(): null, written <<>>, or <<x, y>>.  Line 409 divides
\* without Math.floor, and Int32Array.from drops the fraction of the quotient
GetTopLeftOnBit(m) ==
    LET bitsOffset == FirstNonZero(m.bits, 0)
    IN IF bitsOffset = Len(m.bits) THEN <<>>
       ELSE <<WordColumn(m, bitsOffset) + LowestBit(WordAt(m.bits, bitsOffset), 0),
              bitsOffset \div m.rowSize>>

\* BitMatrix.getBottomRightOnBit(): null, written <<>>, or <<x, y>>, y being
\* Math.floor(bitsOffset / rowSize), line 434
GetBottomRightOnBit(m) ==
    LET bitsOffset == LastNonZero(m.bits, Len(m.bits) - 1)
    IN IF bitsOffset < 0 THEN <<>>
       ELSE <<WordColumn(m, bitsOffset) + HighestBit(WordAt(m.bits, bitsOffset), 31),
              bitsOffset \div m.rowSize>>

-----------------------------------------------------------------------------
(* BitMatrix objects on the heap.  An object holds width, height, rowSize and, in bits, *)
(* a reference to an Int32Array; the methods that change a matrix write into the array *)
(* the object refers to.                                                              *)

\* the matrix an object is, its array read through the reference
Deref(objs, bufs, id) ==
    [width |-> objs[id].width, height |-> objs[id].height, rowSize |-> objs[id].rowSize,
     bits |-> bufs[objs[id].bits]]

\* the arrays after a method of object id left its array with the words of m
WriteBits(objs, bufs, id, m) == [bufs EXCEPT ![objs[id].bits] = m.bits]

\* this.bits handed to the constructor as it is
CloneBits_NoSlice(bufs, b) == [buffers |-> bufs, ref |-> b]

\* clone, line 533: this.bits.slice(), a new array of the same elements, and the
\* reference to it
CloneBits(bufs, b) ==
    [buffers |-> Append(bufs, [k \in 1 .. Len(bufs[b]) |-> bufs[b][k]]), ref |-> Len(bufs) + 1]

\* the constructor given bits, lines 70-86: the object keeps the reference it is given
NewBitMatrixOver(width, height, rowSize, ref) ==
    [width |-> width, height |-> height, rowSize |-> rowSize, bits |-> ref]

\* BitMatrix.clone() of object id: the objects and the arrays after it
Clone(objs, bufs, id) ==
    LET r == CloneBits(bufs, objs[id].bits)
    IN [objects |-> Append(objs, NewBitMatrixOver(objs[id].width, objs[id].height,
                                                  objs[id].rowSize, r.ref)),
        buffers |-> r.buffers]

-----------------------------------------------------------------------------
(* Numbers.  The floats of PerspectiveTransform and GridSampler are modelled as exact *)
(* rationals <<n, d>>, d > 0, in lowest terms: the rounding of a Float32Array element *)
(* is left out, and no division by zero occurs on the inputs of the model.            *)

RECURSIVE Gcd(_, _)
Gcd(a, b) == IF b = 0 THEN a ELSE Gcd(b, a % b)

\* the rational n / d, d # 0
Rat(n, d) ==
    LET g == Gcd(IF n < 0 THEN -n ELSE n, IF d < 0 THEN -d ELSE d)
    IN IF d < 0 THEN <<(-n) \div g, (-d) \div g>> ELSE <<n \div g, d \div g>>

RInt(n) == <<n, 1>>

\* a + b, a - b, a * b, a / b
RAdd(a, b) == Rat(a[1] * b[2] + b[1] * a[2], a[2] * b[2])
RSub(a, b) == Rat(a[1] * b[2] - b[1] * a[2], a[2] * b[2])
RMul(a, b) == Rat(a[1] * b[1], a[2] * b[2])
RDiv(a, b) == Rat(a[1] * b[2], a[2] * b[1])

\* Math.floor(a)
RFloor(a) == a[1] \div a[2]

-----------------------------------------------------------------------------
(* PerspectiveTransform *)

\* new PerspectiveTransform(a11, a21, a31, a12, a22, a32, a13, a23, a33), lines 570-572
NewPerspectiveTransform(a11, a21, a31, a12, a22, a32, a13, a23, a33) ==
    [a11 |-> a11, a21 |-> a21, a31 |-> a31,
     a12 |-> a12, a22 |-> a22, a32 |-> a32,
     a13 |-> a13, a23 |-> a23, a33 |-> a33]

\* lines 608-612: one point of transformPoints
TransformPoint(t, p) ==
    LET denominator == RAdd(RAdd(RMul(t.a13, p.x), RMul(t.a23, p.y)), t.a33)
    IN [x |-> RDiv(RAdd(RAdd(RMul(t.a11, p.x), RMul(t.a21, p.y)), t.a31), denominator),
        y |-> RDiv(RAdd(RAdd(RMul(t.a12, p.x), RMul(t.a22, p.y)), t.a32), denominator)]

\* PerspectiveTransform.transformPoints(points), the points as a sequence of (x, y)
TransformPoints(t, points) == [k \in 1 .. Len(points) |-> TransformPoint(t, points[k])]

\* squareToQuadrilateral taking the branch of the parallelogram whatever dx3 and dy3
SquareToQuadrilateral_Affine(x0, y0, x1, y1, x2, y2, x3, y3) ==
    NewPerspectiveTransform(RSub(x1, x0), RSub(x2, x1), x0, RSub(y1, y0), RSub(y2, y1), y0,
                            RInt(0), RInt(0), RInt(1))

\* PerspectiveTransform.squareToQuadrilateral(x0, y0, x1, y1, x2, y2, x3, y3)
SquareToQuadrilateral(x0, y0, x1, y1, x2, y2, x3, y3) ==
    LET dx3 == RSub(RAdd(RSub(x0, x1), x2), x3)
        dy3 == RSub(RAdd(RSub(y0, y1), y2), y3)
    IN IF dx3 = RInt(0) /\ dy3 = RInt(0)
       THEN NewPerspectiveTransform(RSub(x1, x0), RSub(x2, x1), x0,
                                    RSub(y1, y0), RSub(y2, y1), y0,
                                    RInt(0), RInt(0), RInt(1))
       ELSE LET dx1 == RSub(x1, x2)
                dx2 == RSub(x3, x2)
                dy1 == RSub(y1, y2)
                dy2 == RSub(y3, y2)
                denominator == RSub(RMul(dx1, dy2), RMul(dx2, dy1))
                a13 == RDiv(RSub(RMul(dx3, dy2), RMul(dx2, dy3)), denominator)
                a23 == RDiv(RSub(RMul(dx1, dy3), RMul(dx3, dy1)), denominator)
            IN NewPerspectiveTransform(
                   RAdd(RSub(x1, x0), RMul(a13, x1)), RAdd(RSub(x3, x0), RMul(a23, x3)), x0,
                   RAdd(RSub(y1, y0), RMul(a13, y1)), RAdd(RSub(y3, y0), RMul(a23, y3)), y0,
                   a13, a23, RInt(1))

\* buildAdjoint with the sign of one cofactor wrong
BuildAdjoint_Sign(t) ==
    NewPerspectiveTransform(
        RSub(RMul(t.a22, t.a33), RMul(t.a23, t.a32)),
        RSub(RMul(t.a21, t.a33), RMul(t.a23, t.a31)),
        RSub(RMul(t.a21, t.a32), RMul(t.a22, t.a31)),
        RSub(RMul(t.a13, t.a32), RMul(t.a12, t.a33)),
        RSub(RMul(t.a11, t.a33), RMul(t.a13, t.a31)),
        RSub(RMul(t.a12, t.a31), RMul(t.a11, t.a32)),
        RSub(RMul(t.a12, t.a23), RMul(t.a13, t.a22)),
        RSub(RMul(t.a13, t.a21), RMul(t.a11, t.a23)),
        RSub(RMul(t.a11, t.a22), RMul(t.a12, t.a21)))

\* PerspectiveTransform.buildAdjoint()
BuildAdjoint(t) ==
    NewPerspectiveTransform(
        RSub(RMul(t.a22, t.a33), RMul(t.a23, t.a32)),
        RSub(RMul(t.a23, t.a31), RMul(t.a21, t.a33)),
        RSub(RMul(t.a21, t.a32), RMul(t.a22, t.a31)),
        RSub(RMul(t.a13, t.a32), RMul(t.a12, t.a33)),
        RSub(RMul(t.a11, t.a33), RMul(t.a13, t.a31)),
        RSub(RMul(t.a12, t.a31), RMul(t.a11, t.a32)),
        RSub(RMul(t.a12, t.a23), RMul(t.a13, t.a22)),
        RSub(RMul(t.a13, t.a21), RMul(t.a11, t.a23)),
        RSub(RMul(t.a11, t.a22), RMul(t.a12, t.a21)))

\* PerspectiveTransform.times(other)
Times(t, other) ==
    NewPerspectiveTransform(
        RAdd(RAdd(RMul(t.a11, other.a11), RMul(t.a21, other.a12)), RMul(t.a31, other.a13)),
        RAdd(RAdd(RMul(t.a11, other.a21), RMul(t.a21, other.a22)), RMul(t.a31, other.a23)),
        RAdd(RAdd(RMul(t.a11, other.a31), RMul(t.a21, other.a32)), RMul(t.a31, other.a33)),
        RAdd(RAdd(RMul(t.a12, other.a11), RMul(t.a22, other.a12)), RMul(t.a32, other.a13)),
        RAdd(RAdd(RMul(t.a12, other.a21), RMul(t.a22, other.a22)), RMul(t.a32, other.a23)),
        RAdd(RAdd(RMul(t.a12, other.a31), RMul(t.a22, other.a32)), RMul(t.a32, other.a33)),
        RAdd(RAdd(RMul(t.a13, other.a11), RMul(t.a23, other.a12)), RMul(t.a33, other.a13)),
        RAdd(RAdd(RMul(t.a13, other.a21), RMul(t.a23, other.a22)), RMul(t.a33, other.a23)),
        RAdd(RAdd(RMul(t.a13, other.a31), RMul(t.a23, other.a32)), RMul(t.a33, other.a33)))

\* quadrilateralToSquare without buildAdjoint()
QuadrilateralToSquare_NoAdjoint(x0, y0, x1, y1, x2, y2, x3, y3) ==
    SquareToQuadrilateral(x0, y0, x1, y1, x2, y2, x3, y3)

\* PerspectiveTransform.quadrilateralToSquare(x0, y0, x1, y1, x2, y2, x3, y3)
QuadrilateralToSquare(x0, y0, x1, y1, x2, y2, x3, y3) ==
    BuildAdjoint(SquareToQuadrilateral(x0, y0, x1, y1, x2, y2, x3, y3))

\* PerspectiveTransform.quadrilateralToQuadrilateral(q, qp), a quadrilateral being
\* <<x0, y0, x1, y1, x2, y2, x3, y3>>
QuadrilateralToQuadrilateral(q, qp) ==
    LET qToS == QuadrilateralToSquare(q[1], q[2], q[3], q[4], q[5], q[6], q[7], q[8])
        sToQ == SquareToQuadrilateral(qp[1], qp[2], qp[3], qp[4], qp[5], qp[6], qp[7], qp[8])
    IN Times(sToQ, qToS)

-----------------------------------------------------------------------------
(* GridSampler and DefaultGridSampler *)

\* checkAndNudgePoints, lines 137 and 168: x < -1 || x > width || y < -1 || y > height
OutOfReach(p, width, height) ==
    \/ RFloor(p.x) < -1 \/ RFloor(p.x) > width
    \/ RFloor(p.y) < -1 \/ RFloor(p.y) > height

\* lines 143-149 without the branch for x === width
NudgeCoordinate_LowOnly(c, size) ==
    IF RFloor(c) = -1 THEN RInt(0) ELSE c

\* lines 143-149 (x against width) and 151-157 (y against height)
NudgeCoordinate(c, size) ==
    IF RFloor(c) = -1 THEN RInt(0)
    ELSE IF RFloor(c) = size THEN RInt(size - 1)
    ELSE c

\* a flag nudged that stays set, so that a scan never stops before the last point
NudgeFlag_Always(p, width, height) == TRUE

\* the flag nudged after lines 141-157
NudgeFlag(p, width, height) ==
    RFloor(p.x) = -1 \/ RFloor(p.x) = width \/ RFloor(p.y) = -1 \/ RFloor(p.y) = height

RECURSIVE NudgeScan(_, _, _, _, _)
\* the loops of lines 132-158 (step 1, from the first point) and 163-189 (step -1, from
\* the last), k being the point at offset 2 * (k - 1): the loop goes on while nudged
NudgeScan(points, width, height, k, step) ==
    IF k < 1 \/ k > Len(points) THEN [threw |-> "none", points |-> points]
    ELSE IF OutOfReach(points[k], width, height)
    THEN [threw |-> "NotFoundException", points |-> points]
    ELSE IF NudgeFlag(points[k], width, height)
    THEN NudgeScan([points EXCEPT ![k] = [x |-> NudgeCoordinate(points[k].x, width),
                                           y |-> NudgeCoordinate(points[k].y, height)]],
                   width, height, k + step, step)
    ELSE [threw |-> "none", points |-> points]

\* GridSampler.checkAndNudgePoints(image, points): what it throws, and the points after it
CheckAndNudgePoints(width, height, points) ==
    LET fromStart == NudgeScan(points, width, height, 1, 1)
    IN IF fromStart.threw # "none" THEN fromStart
       ELSE NudgeScan(fromStart.points, width, height, Len(points), -1)

\* lines 70-77 without the + 0.5
RowPoints_NoHalf(dimensionX, y) ==
    [k \in 1 .. dimensionX |-> [x |-> RInt(k - 1), y |-> RInt(y)]]

\* lines 70-77: the points of row y, points[x] = x / 2 + 0.5 and points[x + 1] = y + 0.5
RowPoints(dimensionX, y) ==
    [k \in 1 .. dimensionX |-> [x |-> Rat(2 * (k - 1) + 1, 2), y |-> Rat(2 * y + 1, 2)]]

\* the test of sampleGridWithTransform, line 62, with && for ||
DimensionsRejected_Both(dimensionX, dimensionY) == dimensionX <= 0 /\ dimensionY <= 0

\* the test of sampleGridWithTransform, line 62
DimensionsRejected(dimensionX, dimensionY) == dimensionX <= 0 \/ dimensionY <= 0

\* line 86 with the bit set in the image
SampleTarget_Image(image, bits) == image

\* line 86: the object the sampled bit is set in, bits.set(x / 2, y)
SampleTarget(image, bits) == bits

RECURSIVE SamplePoints(_, _, _, _, _, _)
\* lines 83-88: for each point of the row, image.get at its floor coordinates and, if
\* set, bits.set(x / 2, y).  get reads an Int32Array, which gives undefined outside its
\* bounds and does not throw, so the catch of lines 89-98 is never entered.
SamplePoints(h, image, bits, points, y, k) ==
    IF k > Len(points) THEN h
    ELSE LET c == <<RFloor(points[k].x), RFloor(points[k].y)>>
             target == SampleTarget(image, bits)
             next == [h EXCEPT
                        !.buffers =
                            IF Get(Deref(h.objects, h.buffers, image), c[1], c[2])
                            THEN WriteBits(h.objects, h.buffers, target,
                                           Set(Deref(h.objects, h.buffers, target), k - 1, y))
                            ELSE h.buffers]
         IN SamplePoints(next, image, bits, points, y, k + 1)

RECURSIVE SampleRows(_, _, _, _, _, _, _)
\* lines 70-99: for (let y = 0; y < dimensionY; y++)
SampleRows(h, image, bits, dimensionX, dimensionY, transform, y) ==
    IF y >= dimensionY THEN h
    ELSE LET m == Deref(h.objects, h.buffers, image)
             nudged == CheckAndNudgePoints(m.width, m.height,
                           TransformPoints(transform, RowPoints(dimensionX, y)))
         IN IF nudged.threw # "none"
            THEN [h EXCEPT !.threw = nudged.threw, !.result = 0]
            ELSE SampleRows(SamplePoints(h, image, bits, nudged.points, y, 1),
                            image, bits, dimensionX, dimensionY, transform, y + 1)

\* DefaultGridSampler.sampleGridWithTransform(image, dimensionX, dimensionY, transform)
\* on the heap: what it throws, the heap after it, and the object it returns (0 for none).
\* When it throws, bits (line 67) and its array are referred to by nothing and are gone,
\* whatever else was written stays.
SampleGridWithTransform(objs, bufs, image, dimensionX, dimensionY, transform) ==
    IF DimensionsRejected(dimensionX, dimensionY)
    THEN [threw |-> "NotFoundException", objects |-> objs, buffers |-> bufs,
          result |-> 0]
    ELSE IF ConstructorRejects(dimensionX, dimensionY)
    THEN [threw |-> "IllegalArgumentException", objects |-> objs, buffers |-> bufs,
          result |-> 0]
    ELSE LET m == NewBitMatrix(dimensionX, dimensionY)
             bits == Len(objs) + 1
             h == SampleRows([threw |-> "none",
                              objects |-> Append(objs, NewBitMatrixOver(m.width, m.height,
                                                           m.rowSize, Len(bufs) + 1)),
                              buffers |-> Append(bufs, m.bits),
                              result |-> bits],
                             image, bits, dimensionX, dimensionY, transform, 0)
         IN IF h.threw = "none" THEN h
            ELSE [h EXCEPT !.objects = SubSeq(h.objects, 1, Len(objs)),
                           !.buffers = SubSeq(h.buffers, 1, Len(bufs))]

\* DefaultGridSampler.sampleGrid(image, dimensionX, dimensionY, p1To .. p4To, p1From .. p4From)
SampleGrid(objs, bufs, image, dimensionX, dimensionY, pTo, pFrom) ==
    SampleGridWithTransform(objs, bufs, image, dimensionX, dimensionY,
                            QuadrilateralToQuadrilateral(pTo, pFrom))

-----------------------------------------------------------------------------
(* GridSamplerInstance.  A sampler is an object, written as its class and an      *)
(* identity; the identity 0 is the object the static initializer makes.           *)

\* line 7: the new DefaultGridSampler() of the static initializer
DefaultSampler == [class |-> "DefaultGridSampler", id |-> 0]

\* setGridSampler installing a sampler only over the one of the static initializer
SetGridSampler_Once(installed, newGridSampler) ==
    IF installed = DefaultSampler THEN newGridSampler ELSE installed

\* GridSamplerInstance.setGridSampler(newGridSampler), lines 20-22: the field after it
SetGridSampler(installed, newGridSampler) == newGridSampler

\* GridSamplerInstance.getInstance(), lines 27-29: what it returns
GetInstance(installed) == installed

-----------------------------------------------------------------------------
(* Specifications.  A BitSource and a BitMatrix share no state; each is explored *)
(* in a specification of its own, the variables of the other left alone.        *)

NoCall == [op |-> "new", numBits |-> 0, threw |-> "none", result |-> {},
           preByteOffset |-> 0, preBitOffset |-> 0]

NoMatrixCall == [op |-> "new", x |-> 0, y |-> 0, mask |-> NoMatrix, maskAfter |-> NoMatrix,
                 threw |-> "none", result |-> <<>>, pre |-> NoMatrix,
                 repeats |-> FALSE, prePre |-> NoMatrix]

BitSourceIdle ==
    /\ bytes = <<>>
    /\ byteOffset = 0
    /\ bitOffset = 0
    /\ bsRet = NoCall
    /\ readLog = <<>>

BitMatrixIdle ==
    /\ matrix = NoMatrix
    /\ bmRet = NoMatrixCall
    /\ calls = 0

\* no call made on the objects of the heap
NoHeapCall == [op |-> "new", target |-> 0, args |-> <<>>, threw |-> "none", result |-> 0,
               objects |-> <<>>, buffers |-> <<>>, calls |-> 0]

\* no object on the heap
HeapIdle ==
    /\ objects = <<>>
    /\ buffers = <<>>
    /\ hpRet = NoHeapCall

\* no string in hand
NoText == [str |-> <<>>, from |-> "none"]

\* parseFromString not called
NoParse == [called |-> FALSE, threw |-> "none", matrix |-> NoMatrix]

TextIdle ==
    /\ text = NoText
    /\ tokens = [setString |-> <<>>, unsetString |-> <<>>]
    /\ parsed = NoParse

\* the class GridSamplerInstance as it is loaded, no call made on it
InstanceIdle ==
    /\ gridSampler = DefaultSampler
    /\ giRet = [op |-> "new", newGridSampler |-> [class |-> "none", id |-> -1],
                result |-> [class |-> "none", id |-> -1], pre |-> DefaultSampler,
                sets |-> <<>>, calls |-> 0]

\* new BitSource(bytes), the bytes being 0xB4 and 0x3A
InitBitSource ==
    /\ bytes \in UNION {[1 .. n -> {180, 58}] : n \in 0 .. MaxLen}
    /\ byteOffset = 0
    /\ bitOffset = 0
    /\ bsRet = NoCall
    /\ readLog = <<>>
    /\ BitMatrixIdle
    /\ HeapIdle
    /\ TextIdle
    /\ InstanceIdle

\* a call of readBits(numBits): legal counts below, at and above the byte sizes, and
\* the illegal ones on both sides of [1, 32]
DoReadBits ==
    \E numBits \in {-1, 0, 1, 2, 3, 4, 5, 7, 8, 9, 12, 16, 20, 24, 31, 32, 33} :
      \E r \in {ReadBits(bytes, byteOffset, bitOffset, numBits)} :
        /\ byteOffset' = r.byteOffset
        /\ bitOffset' = r.bitOffset
        /\ bsRet' = [op |-> "readBits", numBits |-> numBits, threw |-> r.threw,
                     result |-> r.result,
                     preByteOffset |-> byteOffset, preBitOffset |-> bitOffset]
        /\ readLog' = IF r.threw = "none" THEN readLog \o WordToBits(r.result, numBits)
                      ELSE readLog
        /\ UNCHANGED <<bytes, bmVars, hpVars, txVars, gridSampler, giRet>>

\* a call of getBitOffset(), lines 52-54
DoGetBitOffset ==
    /\ bsRet' = [op |-> "getBitOffset", numBits |-> 0, threw |-> "none",
                 result |-> ToWord(bitOffset),
                 preByteOffset |-> byteOffset, preBitOffset |-> bitOffset]
    /\ UNCHANGED <<bytes, byteOffset, bitOffset, readLog,
                   bmVars, hpVars, txVars, gridSampler, giRet>>

\* a call of getByteOffset(), lines 60-62
DoGetByteOffset ==
    /\ bsRet' = [op |-> "getByteOffset", numBits |-> 0, threw |-> "none",
                 result |-> ToWord(byteOffset),
                 preByteOffset |-> byteOffset, preBitOffset |-> bitOffset]
    /\ UNCHANGED <<bytes, byteOffset, bitOffset, readLog,
                   bmVars, hpVars, txVars, gridSampler, giRet>>

\* a call of available(), lines 132-134
DoAvailable ==
    /\ bsRet' = [op |-> "available", numBits |-> 0, threw |-> "none",
                 result |-> ToWord(Available(bytes, byteOffset, bitOffset)),
                 preByteOffset |-> byteOffset, preBitOffset |-> bitOffset]
    /\ UNCHANGED <<bytes, byteOffset, bitOffset, readLog,
                   bmVars, hpVars, txVars, gridSampler, giRet>>

NextBitSource ==
    \/ DoReadBits
    \/ DoGetBitOffset
    \/ DoGetByteOffset
    \/ DoAvailable

SpecBitSource == InitBitSource /\ [][NextBitSource]_vars

\* the sizes of the matrices: one word a row and less, exactly one word, two and three words
Dims == {<<1, 1>>, <<3, MaxHeight>>, <<32, 2>>, <<33, MaxHeight>>,
         <<MaxWidth, 1>>, <<MaxWidth, 2>>}

\* the boolean images the matrices are parsed from: all off, all on, a checkerboard
Images(width, height) ==
    { [i \in 0 .. (height - 1) |-> [j \in 0 .. (width - 1) |-> FALSE]],
      [i \in 0 .. (height - 1) |-> [j \in 0 .. (width - 1) |-> TRUE]],
      [i \in 0 .. (height - 1) |-> [j \in 0 .. (width - 1) |-> (i + j) % 2 = 0]] }

\* the in-range coordinates set, unset and flip are called with: the corners, and the
\* columns on both sides of the first word boundary
Coords(m) ==
    {c \in {<<0, 0>>, <<m.width - 1, m.height - 1>>, <<31, m.height - 1>>,
            <<32, 0>>, <<m.width - 2, m.height \div 2>>} :
        c[1] >= 0 /\ c[1] < m.width /\ c[2] >= 0 /\ c[2] < m.height}

\* the masks xor is called with on a width x height matrix, tabulated by size: two of
\* the matrix's own size, and one each that is wider, taller, or constructed with a
\* longer rowSize
MaskTab ==
    [d \in Dims |->
        LET width == d[1]
            height == d[2]
        IN { ParseFromBooleanArray([i \in 0 .. (height - 1) |->
                                      [j \in 0 .. (width - 1) |-> TRUE]]),
             ParseFromBooleanArray([i \in 0 .. (height - 1) |->
                                      [j \in 0 .. (width - 1) |-> (i + 2 * j) % 3 = 0]]),
             ParseFromBooleanArray([i \in 0 .. (height - 1) |-> [j \in 0 .. width |-> TRUE]]),
             ParseFromBooleanArray([i \in 0 .. height |-> [j \in 0 .. (width - 1) |-> TRUE]]),
             Set(NewBitMatrixRowSize(width, height, ((width + 31) \div 32) + 1), 0, 0) }]

\* BitMatrix.parseFromBooleanArray(image)
InitBitMatrix ==
    /\ \E d \in Dims : \E image \in Images(d[1], d[2]) :
          matrix = ParseFromBooleanArray(image)
    /\ bmRet = NoMatrixCall
    /\ calls = 0
    /\ BitSourceIdle
    /\ HeapIdle
    /\ TextIdle
    /\ InstanceIdle

\* the record of a call, with the matrix before it; when the call repeats the one before
\* it (same operation, same arguments, neither failed), the matrix before that one too
Called(op, x, y, mask, maskAfter, threw, result) ==
    LET repeats == /\ bmRet.op = op /\ bmRet.x = x /\ bmRet.y = y /\ bmRet.mask = mask
                   /\ bmRet.threw = "none" /\ threw = "none"
    IN /\ calls < MaxCalls
       /\ calls' = calls + 1
       /\ bmRet' = [op |-> op, x |-> x, y |-> y, mask |-> mask, maskAfter |-> maskAfter,
                    threw |-> threw, result |-> result, pre |-> matrix,
                    repeats |-> repeats,
                    prePre |-> IF repeats THEN bmRet.pre ELSE NoMatrix]
       /\ UNCHANGED <<bsVars, hpVars, txVars, gridSampler, giRet>>

DoSet ==
    \E c \in Coords(matrix) :
        /\ matrix' = Set(matrix, c[1], c[2])
        /\ Called("set", c[1], c[2], NoMatrix, NoMatrix, "none", <<>>)

DoUnset ==
    \E c \in Coords(matrix) :
        /\ matrix' = Unset(matrix, c[1], c[2])
        /\ Called("unset", c[1], c[2], NoMatrix, NoMatrix, "none", <<>>)

DoFlip ==
    \E c \in Coords(matrix) :
        /\ matrix' = Flip(matrix, c[1], c[2])
        /\ Called("flip", c[1], c[2], NoMatrix, NoMatrix, "none", <<>>)

DoXor ==
    \E mask \in MaskTab[<<matrix.width, matrix.height>>] :
      \E r \in {Xor(matrix, mask)} :
        /\ matrix' = r.this
        /\ Called("xor", 0, 0, mask, r.mask, r.threw, <<>>)

DoRotate180 ==
    /\ matrix' = Rotate180(matrix)
    /\ Called("rotate180", 0, 0, NoMatrix, NoMatrix, "none", <<>>)

DoGetEnclosingRectangle ==
    /\ matrix' = matrix
    /\ Called("getEnclosingRectangle", 0, 0, NoMatrix, NoMatrix, "none",
              GetEnclosingRectangle(matrix))

DoGetTopLeftOnBit ==
    /\ matrix' = matrix
    /\ Called("getTopLeftOnBit", 0, 0, NoMatrix, NoMatrix, "none", GetTopLeftOnBit(matrix))

DoGetBottomRightOnBit ==
    /\ matrix' = matrix
    /\ Called("getBottomRightOnBit", 0, 0, NoMatrix, NoMatrix, "none",
              GetBottomRightOnBit(matrix))

NextBitMatrix ==
    \/ DoSet
    \/ DoUnset
    \/ DoFlip
    \/ DoXor
    \/ DoRotate180
    \/ DoGetEnclosingRectangle
    \/ DoGetTopLeftOnBit
    \/ DoGetBottomRightOnBit

SpecBitMatrix == InitBitMatrix /\ [][NextBitMatrix]_vars

\* either a matrix and no string yet, or a string a caller wrote and no matrix.  The
\* matrices written as strings have one cell, some cells, or two words a row; the strings
\* are all of at most MaxText characters out of the default tokens "x" and " ", the two
\* line breaks, and a character of no token
\* the setString / unsetString pairs are the defaults of toString; the two-character tokens
\* of the commented-out Java defaults; a set token that is a prefix of the unset token;
\* a token that holds a line break after its first character; tokens that begin with
\* a line break
InitText ==
    /\ tokens \in
          { [setString |-> <<"x">>, unsetString |-> <<" ">>],
            [setString |-> <<"x", " ">>, unsetString |-> <<" ", " ">>],
            [setString |-> <<"x">>, unsetString |-> <<"x", "x">>],
            [setString |-> <<"x", "\n">>, unsetString |-> <<" ">>],
            [setString |-> <<"\n">>, unsetString |-> <<"x">>],
            [setString |-> <<"x">>, unsetString |-> <<"\r", " ">>] }
    /\ \/ /\ \E d \in {<<1, 1>>, <<2, 2>>, <<3, MaxHeight>>, <<33, 1>>} :
                \E image \in Images(d[1], d[2]) : matrix = ParseFromBooleanArray(image)
          /\ text = NoText
       \/ /\ matrix = NoMatrix
          /\ \E str \in UNION {[1 .. n -> {"x", " ", "\n", "\r", "?"}] : n \in 0 .. MaxText} :
                text = [str |-> str, from |-> "caller"]
    /\ parsed = NoParse
    /\ bmRet = NoMatrixCall
    /\ calls = 0
    /\ BitSourceIdle
    /\ HeapIdle
    /\ InstanceIdle

\* text = matrix.toString(setString, unsetString), the line separator being "\n"
DoToString ==
    /\ matrix # NoMatrix
    /\ text' = [str |-> BuildToString(matrix, tokens.setString, tokens.unsetString, <<"\n">>),
                from |-> "toString"]
    /\ parsed' = NoParse
    /\ UNCHANGED <<tokens, bsVars, bmVars, hpVars, gridSampler, giRet>>

\* BitMatrix.parseFromString(text, setString, unsetString)
DoParseFromString ==
    /\ text # NoText
    /\ \E r \in {ParseFromString(text.str, tokens.setString, tokens.unsetString)} :
          parsed' = [called |-> TRUE, threw |-> r.threw, matrix |-> r.matrix]
    /\ UNCHANGED <<text, tokens, bsVars, bmVars, hpVars, gridSampler, giRet>>

NextText ==
    \/ DoToString
    \/ DoParseFromString

SpecText == InitText /\ [][NextText]_vars

\* new BitMatrix by parseFromBooleanArray(image): one object and its array, of one word
\* a row or of two
InitObjects ==
    /\ \E d \in {<<3, MaxHeight>>, <<34, 2>>} : \E image \in Images(d[1], d[2]) :
          \E m \in {ParseFromBooleanArray(image)} :
             /\ objects = <<NewBitMatrixOver(m.width, m.height, m.rowSize, 1)>>
             /\ buffers = <<m.bits>>
    /\ hpRet = NoHeapCall
    /\ BitSourceIdle
    /\ BitMatrixIdle
    /\ TextIdle
    /\ InstanceIdle

\* the record of a call on object target, with the heap before it
HeapCalled(op, target, args, threw, result) ==
    /\ hpRet.calls < MaxHeapCalls
    /\ hpRet' = [op |-> op, target |-> target, args |-> args, threw |-> threw,
                 result |-> result, objects |-> objects, buffers |-> buffers,
                 calls |-> hpRet.calls + 1]
    /\ UNCHANGED <<bsVars, bmVars, txVars, gridSampler, giRet>>

\* a method of object target that leaves its array with the words of m
Mutated(op, target, args, threw, m) ==
    /\ buffers' = WriteBits(objects, buffers, target, m)
    /\ objects' = objects
    /\ HeapCalled(op, target, args, threw, 0)

\* object.clone(), the clone being the next object
DoClone ==
    \E id \in DOMAIN objects : \E r \in {Clone(objects, buffers, id)} :
        /\ Len(objects) < 2
        /\ objects' = r.objects
        /\ buffers' = r.buffers
        /\ HeapCalled("clone", id, <<>>, "none", Len(r.objects))

DoObjectSet ==
    \E id \in DOMAIN objects : \E m \in {Deref(objects, buffers, id)} :
        Mutated("set", id, <<m.width - 1, m.height - 1>>, "none",
                Set(m, m.width - 1, m.height - 1))

DoObjectUnset ==
    \E id \in DOMAIN objects : \E m \in {Deref(objects, buffers, id)} :
        Mutated("unset", id, <<m.width - 1, m.height - 1>>, "none",
                Unset(m, m.width - 1, m.height - 1))

DoObjectFlip ==
    \E id \in DOMAIN objects : \E m \in {Deref(objects, buffers, id)} :
        Mutated("flip", id, <<m.width - 1, m.height - 1>>, "none",
                Flip(m, m.width - 1, m.height - 1))

\* object.xor(mask), the mask being the other object
DoObjectXor ==
    \E id \in DOMAIN objects : \E mask \in DOMAIN objects \ {id} :
      \E r \in {Xor(Deref(objects, buffers, id), Deref(objects, buffers, mask))} :
        Mutated("xor", id, <<mask>>, r.threw, r.this)

\* setRegion, called with these regions on a width x height matrix, as
\* <<left, top, width, height>>: the whole matrix, its last cell, columns on both sides of
\* the first word boundary; a negative left or top, a width or height of 0, and regions
\* one column or one row too large
DoObjectSetRegion ==
    \E id \in DOMAIN objects : \E m \in {Deref(objects, buffers, id)} :
      \E a \in
            { <<0, 0, m.width, m.height>>, <<m.width - 1, m.height - 1, 1, 1>>,
              <<m.width - 4, 0, 3, m.height>>,
              <<-1, 0, 1, 1>>, <<0, -1, 1, 1>>, <<0, 0, 0, 1>>, <<0, 0, 1, 0>>,
              <<m.width - 1, 0, 2, 1>>, <<0, m.height - 1, 1, 2>>, <<1, 0, m.width, m.height>> } :
       \E r \in {SetRegion(m, a[1], a[2], a[3], a[4])} :
        Mutated("setRegion", id, a, r.threw, r.this)

DoObjectClear ==
    \E id \in DOMAIN objects :
        Mutated("clear", id, <<>>, "none", Clear(Deref(objects, buffers, id)))

DoObjectRotate180 ==
    \E id \in DOMAIN objects :
        Mutated("rotate180", id, <<>>, "none", Rotate180(Deref(objects, buffers, id)))

NextObjects ==
    \/ DoClone
    \/ DoObjectSet
    \/ DoObjectUnset
    \/ DoObjectFlip
    \/ DoObjectXor
    \/ DoObjectSetRegion
    \/ DoObjectClear
    \/ DoObjectRotate180

SpecObjects == InitObjects /\ [][NextObjects]_vars

\* the grid sizes asked for, two of them with a dimension that is not positive
GridDims == {<<2, 2>>, <<3, 1>>, <<0, 2>>, <<2, -1>>}

\* the square with corners (x, y), (x + side, y), (x + side, y + side), (x, y + side)
Square(x, y, side) ==
    <<x, y, RAdd(x, side), y, RAdd(x, side), RAdd(y, side), x, RAdd(y, side)>>

\* the transform that moves every point by (dx, dy), made as the constructor is
\* private: squareToQuadrilateral of the unit square moved by (dx, dy)
Shift(dx, dy) ==
    LET q == Square(dx, dy, RInt(1))
    IN SquareToQuadrilateral(q[1], q[2], q[3], q[4], q[5], q[6], q[7], q[8])

\* the transforms sampleGridWithTransform is called with: the identity, the shifts that
\* put the first point of the grid at (-0.9, -0.9) and at (-1.1, -1.1), and a transform
\* with a pole at x = 1 / 0.66 that keeps the line y = 0.5: it sends (0.5, 0.5),
\* (1.5, 0.5), (2.5, 0.5) to x = 1.13.., 33, 0.15..; its coefficients are
\* (-0.43, 0, 0.975, -0.33, 1, 0, -0.66, 0, 1)
Transforms ==
    { Shift(RInt(0), RInt(0)), Shift(Rat(-14, 10), Rat(-14, 10)),
      Shift(Rat(-16, 10), Rat(-16, 10)),
      SquareToQuadrilateral(Rat(39, 40), RInt(0), Rat(109, 68), Rat(-33, 34),
                            Rat(109, 68), Rat(67, 34), Rat(39, 40), RInt(1)) }

\* the image, a BitMatrix by parseFromBooleanArray, alone on the heap
InitGridSampler ==
    /\ \E d \in {<<4, 4>>, <<10, 10>>} : \E image \in Images(d[1], d[2]) :
          \E m \in {ParseFromBooleanArray(image)} :
             /\ objects = <<NewBitMatrixOver(m.width, m.height, m.rowSize, 1)>>
             /\ buffers = <<m.bits>>
    /\ hpRet = NoHeapCall
    /\ BitSourceIdle
    /\ BitMatrixIdle
    /\ TextIdle
    /\ InstanceIdle

\* the record of a call of the sampler on image, or of a static method of
\* PerspectiveTransform (image 0), r being what the call gave
Sampled(op, image, args, r) ==
    /\ objects' = r.objects
    /\ buffers' = r.buffers
    /\ hpRet' = [op |-> op, target |-> image, args |-> args, threw |-> r.threw,
                 result |-> r.result, objects |-> objects, buffers |-> buffers,
                 calls |-> hpRet.calls + 1]
    /\ UNCHANGED <<bsVars, bmVars, txVars, gridSampler, giRet>>

\* sampler.sampleGridWithTransform(image, dimensionX, dimensionY, transform)
DoSampleGridWithTransform ==
    /\ hpRet.calls < MaxSamplings
    /\ \E image \in DOMAIN objects : \E d \in GridDims : \E transform \in Transforms :
         \E r \in {SampleGridWithTransform(objects, buffers, image, d[1], d[2], transform)} :
           Sampled("sampleGridWithTransform", image, <<d[1], d[2], transform>>, r)

\* sampler.sampleGrid(image, dimensionX, dimensionY, p1To .. p4To, p1From .. p4From),
\* the To points being the square (0, 0), (2, 0), (2, 2), (0, 2) and the From points
\* one of these quadrilaterals of the image: the whole image, the grid square itself,
\* squares that leave the image by less than one pixel and by more on either side, and
\* one that is no parallelogram
DoSampleGrid ==
    /\ hpRet.calls < MaxSamplings
    /\ \E image \in DOMAIN objects : \E d \in GridDims :
         \E pTo \in {Square(RInt(0), RInt(0), RInt(2))} :
          \E m \in {Deref(objects, buffers, image)} :
           \E pFrom \in
               { <<RInt(0), RInt(0), RInt(m.width), RInt(0),
                   RInt(m.width), RInt(m.height), RInt(0), RInt(m.height)>>,
                 Square(RInt(0), RInt(0), RInt(2)),
                 Square(Rat(-14, 10), Rat(-14, 10), RInt(2)),
                 Square(Rat(-16, 10), Rat(-16, 10), RInt(2)),
                 Square(Rat(2 * m.width - 1, 2), RInt(0), RInt(2)),
                 <<RInt(0), RInt(0), RInt(m.width), RInt(0),
                   RInt(m.width), RInt(m.height), RInt(0), RInt(m.height + 1)>> } :
             \E r \in {SampleGrid(objects, buffers, image, d[1], d[2], pTo, pFrom)} :
               Sampled("sampleGrid", image, <<d[1], d[2], pTo, pFrom>>, r)

\* GridSampler.checkAndNudgePoints(image, points): the points are changed in place.
\* The batches it is called with on a width x height image are every sequence of
\* 1 .. MaxBatch of four points, which are more and less than one unit before (0, 0),
\* inside, and less than one unit past the far corner
DoCheckAndNudgePoints ==
    /\ hpRet.calls < MaxSamplings
    /\ \E image \in DOMAIN objects : \E m \in {Deref(objects, buffers, image)} :
      \E points \in
          LET four == { [x |-> Rat(-11, 10), y |-> Rat(-11, 10)],
                        [x |-> Rat(-9, 10), y |-> Rat(-9, 10)],
                        [x |-> Rat(1, 10), y |-> Rat(2 * m.height - 1, 2)],
                        [x |-> Rat(2 * m.width + 1, 2), y |-> Rat(2 * m.height + 1, 2)] }
          IN UNION {[1 .. n -> four] : n \in 1 .. MaxBatch} :
        \E r \in {CheckAndNudgePoints(m.width, m.height, points)} :
          /\ hpRet' = [op |-> "checkAndNudgePoints", target |-> image, args |-> points,
                       threw |-> r.threw, result |-> 0, objects |-> objects,
                       buffers |-> buffers, calls |-> hpRet.calls + 1,
                       points |-> r.points]
          /\ UNCHANGED <<objects, buffers, bsVars, bmVars, txVars, gridSampler, giRet>>

\* the quadrilaterals the transforms are made for, none of them degenerate: the unit
\* square, a parallelogram, two trapezoids and two quadrilaterals with no parallel sides
Quads ==
    { Square(RInt(0), RInt(0), RInt(1)),
      <<RInt(1), RInt(1), RInt(3), RInt(2), RInt(4), RInt(4), RInt(2), RInt(3)>>,
      <<RInt(0), RInt(0), RInt(4), RInt(0), RInt(3), RInt(3), RInt(1), RInt(3)>>,
      <<RInt(0), RInt(0), RInt(4), RInt(0), RInt(4), RInt(4), RInt(0), RInt(5)>>,
      <<RInt(0), RInt(0), RInt(5), RInt(1), RInt(4), RInt(4), RInt(1), RInt(2)>>,
      <<RInt(1), RInt(0), RInt(3), RInt(-1), RInt(3), RInt(3), Rat(1, 2), RInt(2)>> }

\* PerspectiveTransform.squareToQuadrilateral(x0, y0, x1, y1, x2, y2, x3, y3)
DoSquareToQuadrilateral ==
    /\ hpRet.calls < MaxSamplings
    /\ \E q \in Quads :
         Sampled("squareToQuadrilateral", 0, q,
                 [objects |-> objects, buffers |-> buffers, threw |-> "none",
                  result |-> SquareToQuadrilateral(q[1], q[2], q[3], q[4],
                                                   q[5], q[6], q[7], q[8])])

\* PerspectiveTransform.quadrilateralToSquare(x0, y0, x1, y1, x2, y2, x3, y3)
DoQuadrilateralToSquare ==
    /\ hpRet.calls < MaxSamplings
    /\ \E q \in Quads :
         Sampled("quadrilateralToSquare", 0, q,
                 [objects |-> objects, buffers |-> buffers, threw |-> "none",
                  result |-> QuadrilateralToSquare(q[1], q[2], q[3], q[4],
                                                   q[5], q[6], q[7], q[8])])

NextGridSampler ==
    \/ DoSampleGridWithTransform
    \/ DoSampleGrid
    \/ DoCheckAndNudgePoints
    \/ DoSquareToQuadrilateral
    \/ DoQuadrilateralToSquare

SpecGridSampler == InitGridSampler /\ [][NextGridSampler]_vars

\* the samplers a caller hands to setGridSampler: the installed one of the static
\* initializer (from getInstance()), two more DefaultGridSamplers and a sampler of a
\* class of the caller's
Samplers ==
    { DefaultSampler,
      [class |-> "DefaultGridSampler", id |-> 1],
      [class |-> "DefaultGridSampler", id |-> 2],
      [class |-> "PlatformGridSampler", id |-> 3] }

\* the class GridSamplerInstance loaded: line 7
InitInstance ==
    /\ InstanceIdle
    /\ BitSourceIdle
    /\ BitMatrixIdle
    /\ HeapIdle
    /\ TextIdle

\* GridSamplerInstance.setGridSampler(newGridSampler)
DoSetGridSampler ==
    /\ giRet.calls < MaxInstanceCalls
    /\ \E newGridSampler \in Samplers :
          /\ gridSampler' = SetGridSampler(gridSampler, newGridSampler)
          /\ giRet' = [op |-> "setGridSampler", newGridSampler |-> newGridSampler,
                       result |-> [class |-> "none", id |-> -1], pre |-> gridSampler,
                       sets |-> Append(giRet.sets, newGridSampler),
                       calls |-> giRet.calls + 1]
    /\ UNCHANGED <<bsVars, bmVars, hpVars, txVars>>

\* GridSamplerInstance.getInstance()
DoGetInstance ==
    /\ giRet.calls < MaxInstanceCalls
    /\ gridSampler' = gridSampler
    /\ giRet' = [op |-> "getInstance", newGridSampler |-> [class |-> "none", id |-> -1],
                 result |-> GetInstance(gridSampler), pre |-> gridSampler,
                 sets |-> giRet.sets, calls |-> giRet.calls + 1]
    /\ UNCHANGED <<bsVars, bmVars, hpVars, txVars>>

NextInstance ==
    \/ DoSetGridSampler
    \/ DoGetInstance

SpecInstance == InitInstance /\ [][NextInstance]_vars

-----------------------------------------------------------------------------
(* Claims about BitSource, checked under SpecBitSource *)

\* the cursor before the last call, as a bit position of the buffer
PreBitPosition == 8 * bsRet.preByteOffset + bsRet.preBitOffset

ReadSucceeded == bsRet.op = "readBits" /\ bsRet.threw = "none"
ReadFailed == bsRet.op = "readBits" /\ bsRet.threw # "none"

\* bit k (from 0) of the buffer's bit string: first byte first, most significant bit first
BufferBit(b, k) == (b[(k \div 8) + 1] \div Pow2(7 - (k % 8))) % 2

\* C1: after construction and after any sequence of readBits calls, successful or failing,
\* 0 <= bitOffset < 8 and available() = 8*(len - byteOffset) - bitOffset >= 0.
C1_CursorInvariant ==
    /\ bitOffset \in 0 .. 7
    /\ byteOffset \in 0 .. Len(bytes)
    /\ Available(bytes, byteOffset, bitOffset) = 8 * (Len(bytes) - byteOffset) - bitOffset
    /\ Available(bytes, byteOffset, bitOffset) >= 0

\* a read that crossed a byte boundary and used the buffer up to its last bit
C1_Witness ==
    /\ ReadSucceeded
    /\ bsRet.preBitOffset > 0
    /\ byteOffset > bsRet.preByteOffset + 1
    /\ Available(bytes, byteOffset, bitOffset) = 0

\* C2: readBits(numBits) fails with IllegalArgumentException whenever numBits < 1,
\* numBits > 32 or numBits > available(), and a failing call leaves byteOffset, bitOffset
\* and available() as they were before it.
C2_RejectsAndKeepsCursor ==
    bsRet.op = "readBits" =>
        /\ ( \/ bsRet.numBits < 1
             \/ bsRet.numBits > 32
             \/ bsRet.numBits > 8 * Len(bytes) - PreBitPosition )
           => bsRet.threw = "IllegalArgumentException"
        /\ bsRet.threw # "none" =>
             /\ byteOffset = bsRet.preByteOffset
             /\ bitOffset = bsRet.preBitOffset
             /\ Available(bytes, byteOffset, bitOffset) = 8 * Len(bytes) - PreBitPosition

\* the spec's scenario: 4 bits left of [0xB4, 0x3A], readBits(5) fails, 4 bits are still left
C2_Witness ==
    /\ bytes = <<180, 58>>
    /\ ReadFailed
    /\ bsRet.numBits = 5
    /\ Len(readLog) = 12
    /\ Available(bytes, byteOffset, bitOffset) = 4

\* C3: a successful readBits(numBits) returns the next numBits bits of the buffer, first
\* byte first and most significant bit first, in the low bits of a 32-bit word; the
\* values of successive reads, concatenated, are the buffer's bit string from the start.
C3_ReadsTheBitString ==
    /\ ReadSucceeded =>
         bsRet.result = {i \in 0 .. (bsRet.numBits - 1) :
                            BufferBit(bytes, PreBitPosition + bsRet.numBits - 1 - i) = 1}
    /\ Len(readLog) = 8 * byteOffset + bitOffset
    /\ \A k \in 1 .. Len(readLog) : readLog[k] = BufferBit(bytes, k - 1)

\* the spec's scenario: [0xB4, 0x3A], readBits(4) = 11 and then readBits(8) = 67
C3_Witness ==
    /\ bytes = <<180, 58>>
    /\ ReadSucceeded
    /\ bsRet.numBits = 8
    /\ bsRet.result = ToWord(67)
    /\ readLog = <<1, 0, 1, 1>> \o <<0, 1, 0, 0, 0, 0, 1, 1>>

\* C4, as stated: byteOffset never decreases and every successful readBits call leaves
\* it strictly greater than it was before the call.
C4_StrictlyIncreases ==
    /\ byteOffset >= bsRet.preByteOffset
    /\ ReadSucceeded => byteOffset > bsRet.preByteOffset

\* C4, amended: byteOffset never decreases; a successful readBits(n) advances it by
\* floor((bitOffset + n) / 8), so strictly only when bitOffset + n >= 8, while the bit
\* position 8*byteOffset + bitOffset strictly increases, by n, on every successful call.
C4_Monotone ==
    /\ byteOffset >= bsRet.preByteOffset
    /\ ReadSucceeded =>
         /\ byteOffset = bsRet.preByteOffset + ((bsRet.preBitOffset + bsRet.numBits) \div 8)
         /\ byteOffset > bsRet.preByteOffset <=> bsRet.preBitOffset + bsRet.numBits >= 8
         /\ 8 * byteOffset + bitOffset = PreBitPosition + bsRet.numBits
         /\ 8 * byteOffset + bitOffset > PreBitPosition

\* a successful read inside one byte: bits were consumed and byteOffset stayed
C4_Witness ==
    /\ ReadSucceeded
    /\ bsRet.preBitOffset > 0
    /\ byteOffset = bsRet.preByteOffset
    /\ bitOffset > bsRet.preBitOffset

-----------------------------------------------------------------------------
(* Claims about BitMatrix, checked under SpecBitMatrix *)

\* the in-range coordinates of a matrix
Pixels(m) == (0 .. (m.width - 1)) \X (0 .. (m.height - 1))

\* the coordinates whose bit is set
OnPixels(m) == {p \in Pixels(m) : Get(m, p[1], p[2])}

SameShape(m1, m2) ==
    m1.width = m2.width /\ m1.height = m2.height /\ m1.rowSize = m2.rowSize

BitCall == bmRet.op \in {"set", "unset", "flip"}

\* C5: after set(x,y), get(x,y) is true; after unset(x,y) it is false; after flip(x,y) it
\* is the negation of what it was, so that a second flip(x,y) restores the original value.
C5_SetUnsetFlipGet ==
    /\ bmRet.op = "set" => Get(matrix, bmRet.x, bmRet.y)
    /\ bmRet.op = "unset" => ~Get(matrix, bmRet.x, bmRet.y)
    /\ bmRet.op = "flip" => (Get(matrix, bmRet.x, bmRet.y) <=> ~Get(bmRet.pre, bmRet.x, bmRet.y))
    /\ (bmRet.op = "flip" /\ bmRet.repeats) =>
          (Get(matrix, bmRet.x, bmRet.y) <=> Get(bmRet.prePre, bmRet.x, bmRet.y))

\* a set bit in the second word of a row, flipped twice
C5_Witness ==
    /\ bmRet.op = "flip"
    /\ bmRet.repeats
    /\ bmRet.x >= 32
    /\ Get(bmRet.prePre, bmRet.x, bmRet.y)
    /\ ~Get(bmRet.pre, bmRet.x, bmRet.y)

\* C6: set, unset and flip at an in-range (x,y) change get(x',y') for no other in-range
\* (x',y'), in the same word, in another word of the row or in another row, and leave
\* width, height and rowSize as they were.
C6_OtherBitsKept ==
    BitCall =>
        /\ SameShape(matrix, bmRet.pre)
        /\ \A p \in Pixels(matrix) :
              p # <<bmRet.x, bmRet.y>> => (Get(matrix, p[1], p[2]) <=> Get(bmRet.pre, p[1], p[2]))

\* a bit cleared in a matrix of several words a row and several rows whose other bits,
\* in the same word, the next word and the other rows, are set
C6_Witness ==
    /\ bmRet.op = "unset"
    /\ matrix.rowSize > 1
    /\ matrix.height > 1
    /\ bmRet.x = 31
    /\ Get(bmRet.pre, 31, bmRet.y)
    /\ OnPixels(matrix) = Pixels(matrix) \ {<<bmRet.x, bmRet.y>>}

\* C7: M.xor(N), N of M's dimensions, makes every bit of M the old bit XOR N's bit and
\* leaves N as it was; M.xor(N) a second time restores M.
C7_XorInvolution ==
    (bmRet.op = "xor" /\ bmRet.threw = "none") =>
        /\ SameShape(matrix, bmRet.pre)
        /\ \A p \in Pixels(matrix) :
              Get(matrix, p[1], p[2]) <=>
                  (Get(bmRet.pre, p[1], p[2]) # Get(bmRet.mask, p[1], p[2]))
        /\ bmRet.maskAfter = bmRet.mask
        /\ bmRet.repeats => matrix = bmRet.prePre

\* a second xor with the same mask, on a matrix of several rows and several words a row
\* that had bits set, the mask differing from row to row
C7_Witness ==
    /\ bmRet.op = "xor"
    /\ bmRet.repeats
    /\ matrix.rowSize > 1
    /\ matrix.height > 1
    /\ OnPixels(bmRet.prePre) # {}
    /\ bmRet.pre # bmRet.prePre
    /\ GetRow(bmRet.mask, 0, NewBitArray(matrix.width)) # GetRow(bmRet.mask, 1, NewBitArray(matrix.width))

\* C8: xor(mask) fails with IllegalArgumentException when the mask's width, height or
\* rowSize differs from the matrix's, and then changes no bit of the matrix or of the mask.
C8_XorRejectsOtherShape ==
    (bmRet.op = "xor" /\ ~SameShape(bmRet.mask, bmRet.pre)) =>
        /\ bmRet.threw = "IllegalArgumentException"
        /\ matrix = bmRet.pre
        /\ bmRet.maskAfter = bmRet.mask

\* a mask one row taller than the matrix, which has bits set
C8_Witness ==
    /\ bmRet.op = "xor"
    /\ bmRet.threw = "IllegalArgumentException"
    /\ bmRet.mask.width = matrix.width
    /\ bmRet.mask.rowSize = matrix.rowSize
    /\ bmRet.mask.height = matrix.height + 1
    /\ OnPixels(matrix) # {}

\* C9: after rotate180(), get(x,y) is the former get(width-1-x, height-1-y) for every
\* in-range (x,y), for every width and height, odd heights included.
C9_Rotate180 ==
    bmRet.op = "rotate180" =>
        /\ SameShape(matrix, bmRet.pre)
        /\ \A p \in Pixels(matrix) :
              Get(matrix, p[1], p[2]) <=>
                  Get(bmRet.pre, matrix.width - 1 - p[1], matrix.height - 1 - p[2])

\* an odd height, more than one word a row, and a middle row that its reversal changes
C9_Witness ==
    /\ bmRet.op = "rotate180"
    /\ matrix.height = 3
    /\ matrix.rowSize > 1
    /\ GetRow(matrix, 1, NewBitArray(matrix.width)) # GetRow(bmRet.pre, 1, NewBitArray(matrix.width))

\* C10: getEnclosingRectangle() returns null when no bit is set, and otherwise
\* (left, top, width, height) with left/top the least x/y of a set bit and
\* left+width-1 / top+height-1 the greatest; one set bit (x0,y0) gives (x0,y0,1,1).
C10_EnclosingRectangle ==
    bmRet.op = "getEnclosingRectangle" =>
        LET on == OnPixels(matrix)
            xs == {p[1] : p \in on}
            ys == {p[2] : p \in on}
            minX == CHOOSE x \in xs : \A z \in xs : x <= z
            maxX == CHOOSE x \in xs : \A z \in xs : x >= z
            minY == CHOOSE y \in ys : \A z \in ys : y <= z
            maxY == CHOOSE y \in ys : \A z \in ys : y >= z
        IN /\ on = {} => bmRet.result = <<>>
           /\ on # {} => bmRet.result = <<minX, minY, maxX - minX + 1, maxY - minY + 1>>
           /\ \A p \in on : on = {p} => bmRet.result = <<p[1], p[2], 1, 1>>

\* exactly one bit set, in the second word of its row
C10_Witness ==
    /\ bmRet.op = "getEnclosingRectangle"
    /\ Cardinality(OnPixels(matrix)) = 1
    /\ \E p \in OnPixels(matrix) : p[1] >= 32 /\ bmRet.result = <<p[1], p[2], 1, 1>>

\* the first and the last of a non-empty set of coordinates in row-major order
FirstRowMajor(on) == CHOOSE p \in on : \A q \in on : p[2] < q[2] \/ (p[2] = q[2] /\ p[1] <= q[1])
LastRowMajor(on) == CHOOSE p \in on : \A q \in on : p[2] > q[2] \/ (p[2] = q[2] /\ p[1] >= q[1])

\* C11: getTopLeftOnBit() returns the (x,y) of the first set bit in row-major order
\* (least y, then least x of that row) and getBottomRightOnBit() the (x,y) of the last one,
\* for every width, those above 32 included; both return null when no bit is set, and
\* both return (x0,y0) when (x0,y0) is the only set bit.
C11_TopLeftBottomRight ==
    LET on == OnPixels(matrix)
    IN /\ bmRet.op = "getTopLeftOnBit" =>
            /\ on = {} => bmRet.result = <<>>
            /\ on # {} => bmRet.result = FirstRowMajor(on)
            /\ \A p \in on : on = {p} => bmRet.result = p
       /\ bmRet.op = "getBottomRightOnBit" =>
            /\ on = {} => bmRet.result = <<>>
            /\ on # {} => bmRet.result = LastRowMajor(on)
            /\ \A p \in on : on = {p} => bmRet.result = p

\* several bits set, the first of them in the second word of a row below the first row
C11_Witness ==
    /\ bmRet.op = "getTopLeftOnBit"
    /\ Cardinality(OnPixels(matrix)) > 1
    /\ bmRet.result # <<>>
    /\ bmRet.result[1] >= 32
    /\ bmRet.result[2] >= 1

-----------------------------------------------------------------------------
(* Claims about parseFromString and toString, checked under SpecText *)

IsPrefix(a, b) == Len(a) <= Len(b) /\ SubSeq(b, 1, Len(a)) = a

\* the tokens do not overlap: neither is a prefix of the other (so they differ, and
\* neither is empty)
NonOverlapping(t) ==
    ~IsPrefix(t.setString, t.unsetString) /\ ~IsPrefix(t.unsetString, t.setString)

BeginsWithLineBreak(token) == token # <<>> /\ token[1] \in LineBreaks

\* the parsed matrix has the width, the height and the bits of m
SameBits(m1, m2) ==
    /\ m1.width = m2.width
    /\ m1.height = m2.height
    /\ \A p \in Pixels(m1) : Get(m1, p[1], p[2]) <=> Get(m2, p[1], p[2])

RoundTripMade == text.from = "toString" /\ parsed.called

\* C12, as stated: for any matrix M and non-overlapping tokens s # u,
\* parseFromString(M.toString(s, u), s, u) equals M in width, height and bits.
C12_RoundTrip ==
    (RoundTripMade /\ NonOverlapping(tokens)) =>
        /\ parsed.threw = "none"
        /\ SameBits(parsed.matrix, matrix)

\* C12, amended: for any matrix M and non-overlapping tokens s # u neither of which
\* begins with a line break (\n or \r), parseFromString(M.toString(s, u), s, u) equals M
\* in width, height and bits.
C12_RoundTripNoLeadingBreak ==
    ( /\ RoundTripMade
      /\ NonOverlapping(tokens)
      /\ ~BeginsWithLineBreak(tokens.setString)
      /\ ~BeginsWithLineBreak(tokens.unsetString) ) =>
        /\ parsed.threw = "none"
        /\ SameBits(parsed.matrix, matrix)
        /\ parsed.matrix = matrix

\* a checkerboard of two words a row written with two-character tokens and read back
C12_Witness ==
    /\ RoundTripMade
    /\ Len(tokens.setString) = 2
    /\ NonOverlapping(tokens)
    /\ matrix.rowSize > 1
    /\ OnPixels(matrix) \notin {{}, Pixels(matrix)}
    /\ parsed.matrix = matrix

\* the pieces a string of the two tokens and line breaks is made of
Pieces(t) == {<<"\n">>, <<"\r">>, t.setString, t.unsetString}

\* the end of the piece that begins at a, the string being cut at the positions in cuts
PieceEnd(str, cuts, a) ==
    CHOOSE b \in cuts \cup {Len(str)} : b > a /\ \A c \in cuts \cup {Len(str)} : c > a => b <= c

PieceAt(str, cuts, a) == SubSeq(str, a + 1, PieceEnd(str, cuts, a))

\* the ways to cut a string into line breaks and tokens
Decompositions(str, t) ==
    IF str = <<>> THEN {{}}
    ELSE {cuts \in SUBSET (1 .. (Len(str) - 1)) :
             \A a \in {0} \cup cuts : PieceAt(str, cuts, a) \in Pieces(t)}

\* the number of tokens in each row of a decomposition that has tokens, a row ending at a
\* line-break piece
RowLengths(str, cuts) ==
    LET starts == IF str = <<>> THEN {} ELSE {0} \cup cuts
        breaks == {a \in starts : PieceAt(str, cuts, a) \in {<<"\n">>, <<"\r">>}}
        toks == starts \ breaks
        RowOf(a) == Cardinality({l \in breaks : l < a})
    IN {Cardinality({c \in toks : RowOf(c) = RowOf(a)}) : a \in toks}

\* C13: parseFromString fails with IllegalArgumentException when two non-empty rows of
\* the input have different numbers of tokens, or when the input holds text that is
\* neither a line break, the set token nor the unset token; it then returns no matrix.
\* (Rows are those of the one way to cut the input, the tokens not overlapping each other
\* or a line break.)
C13_ParseRejects ==
    (parsed.called /\ text.from = "caller") =>
        /\ Decompositions(text.str, tokens) = {} => parsed.threw = "IllegalArgumentException"
        /\ ( /\ NonOverlapping(tokens)
             /\ ~BeginsWithLineBreak(tokens.setString)
             /\ ~BeginsWithLineBreak(tokens.unsetString)
             /\ \E cuts \in Decompositions(text.str, tokens) :
                    Cardinality(RowLengths(text.str, cuts)) > 1 )
           => parsed.threw = "IllegalArgumentException"
        /\ parsed.threw # "none" => parsed.matrix = NoMatrix

\* a row of one token and then a row of two, no line break after it
C13_Witness ==
    /\ parsed.called
    /\ text.str = <<"x", "\n", "x", " ">>
    /\ tokens = [setString |-> <<"x">>, unsetString |-> <<" ">>]
    /\ parsed.threw = "IllegalArgumentException"
    /\ parsed.matrix = NoMatrix

-----------------------------------------------------------------------------
(* Claims about setRegion and clone, checked under SpecObjects *)

\* the object the last call was made on, after the call and before it
Target == Deref(objects, buffers, hpRet.target)
PreTarget == Deref(hpRet.objects, hpRet.buffers, hpRet.target)

\* the argument of the last setRegion call lies outside what the method accepts
BadRegion(m, a) ==
    \/ a[1] < 0 \/ a[2] < 0
    \/ a[3] < 1 \/ a[4] < 1
    \/ a[1] + a[3] > m.width \/ a[2] + a[4] > m.height

InRegion(p, a) ==
    a[1] <= p[1] /\ p[1] < a[1] + a[3] /\ a[2] <= p[2] /\ p[2] < a[2] + a[4]

\* C14: setRegion(left, top, width, height) fails with IllegalArgumentException if left
\* or top is negative, width or height is below 1, or left+width exceeds the width or
\* top+height the height of the matrix; a failing call changes no bit of the matrix.
C14_SetRegionRejects ==
    hpRet.op = "setRegion" =>
        /\ BadRegion(PreTarget, hpRet.args) => hpRet.threw = "IllegalArgumentException"
        /\ hpRet.threw # "none" => (buffers = hpRet.buffers /\ objects = hpRet.objects)

\* a region one column too wide, refused on a matrix that has bits clear
C14_Witness ==
    /\ hpRet.op = "setRegion"
    /\ hpRet.threw = "IllegalArgumentException"
    /\ hpRet.args[1] >= 0 /\ hpRet.args[2] >= 0 /\ hpRet.args[3] >= 1 /\ hpRet.args[4] >= 1
    /\ hpRet.args[1] + hpRet.args[3] = Target.width + 1
    /\ OnPixels(Target) # Pixels(Target)

\* C15: a successful setRegion(left, top, width, height) sets every bit (x,y) with
\* left <= x < left+width and top <= y < top+height and leaves every bit outside that
\* rectangle as it was, also when the rectangle spans a 32-bit word boundary.
C15_SetRegionSets ==
    (hpRet.op = "setRegion" /\ hpRet.threw = "none") =>
        /\ SameShape(Target, PreTarget)
        /\ \A p \in Pixels(Target) :
              Get(Target, p[1], p[2]) <=>
                  (InRegion(p, hpRet.args) \/ Get(PreTarget, p[1], p[2]))

\* a region across the first word boundary, set in a matrix that had bits clear inside
\* the region and keeps bits clear outside it
C15_Witness ==
    /\ hpRet.op = "setRegion"
    /\ hpRet.threw = "none"
    /\ hpRet.args[1] < 32
    /\ hpRet.args[1] + hpRet.args[3] > 32
    /\ \E p \in Pixels(Target) : InRegion(p, hpRet.args) /\ ~Get(PreTarget, p[1], p[2])
    /\ \E p \in Pixels(Target) : ~InRegion(p, hpRet.args) /\ ~Get(Target, p[1], p[2])

Mutators == {"set", "unset", "flip", "xor", "setRegion", "clear", "rotate180"}

\* C16: clone() gives an independent deep copy: the clone has the width, height, rowSize
\* and bits the original has when cloned, and no later set, unset, flip, xor, setRegion,
\* clear or rotate180 on either of the two changes a bit of the other.
C16_CloneIndependent ==
    /\ hpRet.op = "clone" =>
          /\ Deref(objects, buffers, hpRet.result) = PreTarget
          /\ Target = PreTarget
          /\ objects[hpRet.result].bits # objects[hpRet.target].bits
    /\ hpRet.op \in Mutators =>
          \A id \in DOMAIN objects :
              id # hpRet.target =>
                  Deref(objects, buffers, id) = Deref(hpRet.objects, hpRet.buffers, id)

\* a call on the clone that changed the clone, the original being as it was
C16_Witness ==
    /\ Len(objects) = 2
    /\ hpRet.op \in Mutators
    /\ hpRet.target = 2
    /\ Target # PreTarget
    /\ Deref(objects, buffers, 1) = Deref(hpRet.objects, hpRet.buffers, 1)
    /\ Deref(objects, buffers, 1) # Deref(objects, buffers, 2)

-----------------------------------------------------------------------------
(* Claims about the grid sampler, checked under SpecGridSampler *)

SamplingCall == hpRet.op \in {"sampleGrid", "sampleGridWithTransform"}

\* the image of the last call as it was before the call, and as it is
PreImage == Deref(hpRet.objects, hpRet.buffers, hpRet.target)
Image == Deref(objects, buffers, hpRet.target)

\* the arguments dimensionX and dimensionY of the last sampling call
DimX == hpRet.args[1]
DimY == hpRet.args[2]

\* the heap is as it was before the last call, and the call returned nothing
NothingMade == objects = hpRet.objects /\ buffers = hpRet.buffers /\ hpRet.result = 0

\* C17 as stated: grid sampling fails with an invalid-argument condition when
\* dimX <= 0 or dimY <= 0.
C17_DimensionsInvalidArgument ==
    (SamplingCall /\ (DimX <= 0 \/ DimY <= 0)) =>
        hpRet.threw = "IllegalArgumentException"

\* C17, amended: grid sampling fails with a not-found condition when dimX <= 0 or
\* dimY <= 0, and then it makes no matrix.
C17_DimensionsNotFound ==
    (SamplingCall /\ (DimX <= 0 \/ DimY <= 0)) =>
        hpRet.threw = "NotFoundException" /\ NothingMade

\* a sampling call with dimensionX = 0 and a positive dimensionY that failed
C17_Witness ==
    /\ SamplingCall
    /\ DimX = 0
    /\ DimY > 0
    /\ hpRet.threw # "none"

\* the transform of the last sampling call
SampleTransform ==
    IF hpRet.op = "sampleGrid" THEN QuadrilateralToQuadrilateral(hpRet.args[3], hpRet.args[4])
    ELSE hpRet.args[3]

\* the transformed points of row y of the grid of the last sampling call
TransformedRow(y) == TransformPoints(SampleTransform, RowPoints(DimX, y))

\* the floor coordinates of p are in [0, width) x [0, height) of m
InsideImage(p, m) ==
    /\ RFloor(p.x) >= 0 /\ RFloor(p.x) < m.width
    /\ RFloor(p.y) >= 0 /\ RFloor(p.y) < m.height

\* some row of the grid passes checkAndNudgePoints and has an interior point whose floor
\* coordinates are outside the image
InteriorSampleOutside ==
    \E y \in 0 .. (DimY - 1) :
        /\ CheckAndNudgePoints(PreImage.width, PreImage.height, TransformedRow(y)).threw = "none"
        /\ \E k \in 2 .. (DimX - 1) : ~InsideImage(TransformedRow(y)[k], PreImage)

\* C18 as stated: a sampling call with a transformed interior point whose floor
\* coordinates are outside the image aborts with a not-found condition and returns no
\* matrix.
C18_OutsideSampleAborts ==
    (SamplingCall /\ DimX > 0 /\ DimY > 0 /\ InteriorSampleOutside) =>
        hpRet.threw = "NotFoundException" /\ hpRet.result = 0

NudgeCall == hpRet.op = "checkAndNudgePoints"

\* p lies more than one unit outside a width x height image: its floor x is below -1
\* or above width, or its floor y below -1 or above height
TooFar(p, width, height) ==
    \/ RFloor(p.x) < -1 \/ RFloor(p.x) > width
    \/ RFloor(p.y) < -1 \/ RFloor(p.y) > height

\* p lies one unit outside: its floor x is -1 or width, or its floor y -1 or height
OneOutside(p, width, height) ==
    RFloor(p.x) \in {-1, width} \/ RFloor(p.y) \in {-1, height}

\* a coordinate clamped to the nearest edge
Clamped(c, size) ==
    CASE RFloor(c) = -1 -> RInt(0)
      [] RFloor(c) = size -> RInt(size - 1)
      [] OTHER -> c

\* point k of the batch is scanned from the start: every point before it was nudged
ScannedFromStart(batch, width, height, k) ==
    \A j \in 1 .. (k - 1) :
        ~TooFar(batch[j], width, height) /\ OneOutside(batch[j], width, height)

\* point k of the batch is scanned from the end: every point after it was nudged in
\* that scan, none of them having been reached from the start
ScannedFromEnd(batch, width, height, k) ==
    \A j \in (k + 1) .. Len(batch) :
        /\ ~ScannedFromStart(batch, width, height, j)
        /\ ~TooFar(batch[j], width, height)
        /\ OneOutside(batch[j], width, height)

Scanned(batch, width, height, k) ==
    ScannedFromStart(batch, width, height, k) \/ ScannedFromEnd(batch, width, height, k)

\* some scanned point of the batch lies more than one unit outside
ScannedTooFar(batch, width, height) ==
    \E k \in 1 .. Len(batch) :
        Scanned(batch, width, height, k) /\ TooFar(batch[k], width, height)

\* C19: in checkAndNudgePoints on a width x height image a scanned point whose floor x
\* is -1 is clamped to x = 0 and whose floor x is width to x = width - 1 (likewise y
\* with height), and a scanned point whose floor x is below -1 or above width (or floor
\* y below -1 or above height) fails the whole sampling with a not-found condition; no
\* other point makes it fail.
C19_BoundaryTolerance ==
    /\ NudgeCall =>
          /\ hpRet.threw = "NotFoundException"
                <=> ScannedTooFar(hpRet.args, PreImage.width, PreImage.height)
          /\ hpRet.threw \in {"none", "NotFoundException"}
          /\ hpRet.threw = "none" =>
                \A k \in 1 .. Len(hpRet.args) :
                    Scanned(hpRet.args, PreImage.width, PreImage.height, k) =>
                        /\ hpRet.points[k].x = Clamped(hpRet.args[k].x, PreImage.width)
                        /\ hpRet.points[k].y = Clamped(hpRet.args[k].y, PreImage.height)
    /\ (SamplingCall /\ DimX > 0 /\ DimY > 0) =>
          /\ (hpRet.threw = "NotFoundException" /\ hpRet.result = 0)
                <=> \E y \in 0 .. (DimY - 1) :
                       ScannedTooFar(TransformedRow(y), PreImage.width, PreImage.height)
          /\ (hpRet.threw = "none" /\ hpRet.result # 0)
                <=> \A y \in 0 .. (DimY - 1) :
                       ~ScannedTooFar(TransformedRow(y), PreImage.width, PreImage.height)

\* on a 10 x 10 image, the batch (-0.9, -0.9), (10.5, 10.5) came back as (0, 0), (9, 9)
C19_Witness ==
    /\ NudgeCall
    /\ PreImage.width = 10 /\ PreImage.height = 10
    /\ hpRet.args = <<[x |-> Rat(-9, 10), y |-> Rat(-9, 10)],
                      [x |-> Rat(21, 2), y |-> Rat(21, 2)]>>
    /\ hpRet.threw = "none"
    /\ hpRet.points = <<[x |-> RInt(0), y |-> RInt(0)], [x |-> RInt(9), y |-> RInt(9)]>>

\* the matrix the last sampling call returned
Result == Deref(objects, buffers, hpRet.result)

\* C20: a successful sampleGrid / sampleGridWithTransform call returns a freshly
\* allocated BitMatrix of exactly dimX x dimY that is not the image object and shares no
\* storage with it, and the bits of the image (and of every other matrix there was) are
\* the same before and after the call, also when the call fails.
C20_FreshResult ==
    SamplingCall =>
        /\ \A id \in DOMAIN hpRet.objects :
              /\ id \in DOMAIN objects
              /\ objects[id] = hpRet.objects[id]
              /\ Deref(objects, buffers, id) = Deref(hpRet.objects, hpRet.buffers, id)
        /\ hpRet.threw = "none" =>
              /\ hpRet.result \in DOMAIN objects \ DOMAIN hpRet.objects
              /\ hpRet.result # hpRet.target
              /\ Result.width = DimX
              /\ Result.height = DimY
              /\ Len(Result.bits) = Result.rowSize * DimY
              /\ objects[hpRet.result].bits \in DOMAIN buffers \ DOMAIN hpRet.buffers
              /\ \A id \in DOMAIN hpRet.objects :
                    objects[id].bits # objects[hpRet.result].bits
        /\ hpRet.threw # "none" => NothingMade

\* a sampling call on an image with set and unset bits that returned a matrix with a
\* set bit, where the image has none
C20_Witness ==
    /\ SamplingCall
    /\ hpRet.threw = "none"
    /\ \E p \in Pixels(Result) :
          /\ Get(Result, p[1], p[2])
          /\ ~Get(Image, p[1], p[2])
    /\ \E p \in Pixels(Image) : Get(Image, p[1], p[2])
    /\ Image = PreImage

\* the image of the grid point (i + 0.5, j + 0.5) under the transform of the last call
GridImage(i, j) == TransformPoint(SampleTransform, [x |-> Rat(2 * i + 1, 2), y |-> Rat(2 * j + 1, 2)])

\* the images of the grid points of row j
GridRow(j) == [k \in 1 .. DimX |-> GridImage(k - 1, j)]

\* the point the sample for (i, j) is taken at: the image of the grid point, clamped if
\* the scans of checkAndNudgePoints reached it
SamplePoint(i, j) ==
    IF Scanned(GridRow(j), PreImage.width, PreImage.height, i + 1)
    THEN [x |-> Clamped(GridImage(i, j).x, PreImage.width),
          y |-> Clamped(GridImage(i, j).y, PreImage.height)]
    ELSE GridImage(i, j)

IdentityTransform ==
    NewPerspectiveTransform(RInt(1), RInt(0), RInt(0), RInt(0), RInt(1), RInt(0),
                            RInt(0), RInt(0), RInt(1))

AllDark(m) == \A p \in Pixels(m) : Get(m, p[1], p[2])

\* the last call is sampleGrid of a W x W image into an n x n grid, with the grid square
\* (0,0), (n,0), (n,n), (0,n) to the image square (0,0), (W,0), (W,W), (0,W)
SquareOntoSquare(n, w) ==
    /\ hpRet.op = "sampleGrid"
    /\ DimX = n /\ DimY = n
    /\ PreImage.width = w /\ PreImage.height = w
    /\ hpRet.args[3] = Square(RInt(0), RInt(0), RInt(n))
    /\ hpRet.args[4] = Square(RInt(0), RInt(0), RInt(w))

\* C22: sampling an all-dark W x W image into an n x n grid, the corners of the grid
\* square mapped onto the corners of the image square, succeeds and gives an n x n
\* all-dark matrix.
C22_AllDark ==
    \A n \in 1 .. 3 : \A w \in 1 .. 10 :
        (SquareOntoSquare(n, w) /\ AllDark(PreImage)) =>
            /\ hpRet.threw = "none"
            /\ Result.width = n /\ Result.height = n
            /\ AllDark(Result)

\* the case of the specification: a 4 x 4 all-dark image sampled into a 2 x 2 grid
C22_Witness ==
    /\ SquareOntoSquare(2, 4)
    /\ AllDark(PreImage)
    /\ hpRet.threw = "none"
    /\ AllDark(Result)

\* the corners of the unit square, in the order of the points of a quadrilateral
UnitCorners ==
    << [x |-> RInt(0), y |-> RInt(0)], [x |-> RInt(1), y |-> RInt(0)],
       [x |-> RInt(1), y |-> RInt(1)], [x |-> RInt(0), y |-> RInt(1)] >>

\* point k of the quadrilateral q = <<x0, y0, x1, y1, x2, y2, x3, y3>>
QuadPoint(q, k) == [x |-> q[2 * k - 1], y |-> q[2 * k]]

\* x0 - x1 + x2 - x3 = 0 and y0 - y1 + y2 - y3 = 0
Parallelogram(q) ==
    /\ RSub(RAdd(RSub(q[1], q[3]), q[5]), q[7]) = RInt(0)
    /\ RSub(RAdd(RSub(q[2], q[4]), q[6]), q[8]) = RInt(0)

\* C23: squareToQuadrilateral(p0, p1, p2, p3) gives a map that sends the corners
\* (0,0), (1,0), (1,1), (0,1) of the unit square to p0, p1, p2, p3; for a parallelogram
\* the map is affine, with a13 = a23 = 0 and a33 = 1.
C23_SquareToQuadrilateral ==
    hpRet.op = "squareToQuadrilateral" =>
        /\ \A k \in 1 .. 4 :
              TransformPoint(hpRet.result, UnitCorners[k]) = QuadPoint(hpRet.args, k)
        /\ Parallelogram(hpRet.args) =>
              /\ hpRet.result.a13 = RInt(0)
              /\ hpRet.result.a23 = RInt(0)
              /\ hpRet.result.a33 = RInt(1)

\* squareToQuadrilateral of a quadrilateral that is no parallelogram, the map not affine
C23_Witness ==
    /\ hpRet.op = "squareToQuadrilateral"
    /\ ~Parallelogram(hpRet.args)
    /\ hpRet.result.a13 # RInt(0)
    /\ TransformPoint(hpRet.result, UnitCorners[3]) = QuadPoint(hpRet.args, 3)

\* C24: for a quadrilateral Q that is not degenerate, squareToQuadrilateral(Q) followed
\* by quadrilateralToSquare(Q), also when the two are composed through times (which
\* applies its argument first), maps each corner of the unit square to itself.
C24_Inverse ==
    hpRet.op = "quadrilateralToSquare" =>
        LET q == hpRet.args
            sToQ == SquareToQuadrilateral(q[1], q[2], q[3], q[4], q[5], q[6], q[7], q[8])
        IN \A k \in 1 .. 4 :
              /\ TransformPoint(hpRet.result, QuadPoint(q, k)) = UnitCorners[k]
              /\ TransformPoint(hpRet.result, TransformPoint(sToQ, UnitCorners[k]))
                    = UnitCorners[k]
              /\ TransformPoint(Times(hpRet.result, sToQ), UnitCorners[k]) = UnitCorners[k]

\* quadrilateralToSquare of a quadrilateral that is no parallelogram, its matrix not
\* normalised (a33 # 1)
C24_Witness ==
    /\ hpRet.op = "quadrilateralToSquare"
    /\ ~Parallelogram(hpRet.args)
    /\ hpRet.result.a33 # RInt(1)
    /\ TransformPoint(hpRet.result, QuadPoint(hpRet.args, 3)) = UnitCorners[3]

\* C26: checkAndNudgePoints scans from the first point on and then from the last point
\* back, each scan stopping at the first point that needed no nudge. The points beyond
\* are neither checked against the bounds nor modified, so that the call can return
\* normally with an interior point still out of bounds; on a normal return the first
\* and the last point have their floor coordinates in [0, width - 1] x [0, height - 1].
C26_EndsOnly ==
    NudgeCall =>
        /\ \A k \in 1 .. Len(hpRet.args) :
              ~Scanned(hpRet.args, PreImage.width, PreImage.height, k) =>
                  hpRet.points[k] = hpRet.args[k]
        /\ (\A k \in 1 .. Len(hpRet.args) :
                Scanned(hpRet.args, PreImage.width, PreImage.height, k) =>
                    ~TooFar(hpRet.args[k], PreImage.width, PreImage.height))
              => hpRet.threw = "none"
        /\ hpRet.threw = "none" =>
              /\ InsideImage(hpRet.points[1], PreImage)
              /\ InsideImage(hpRet.points[Len(hpRet.points)], PreImage)

\* a batch of three points came back normally, its first and last point inside the
\* image and its middle point, more than one unit outside, as it was
C26_Witness ==
    /\ NudgeCall
    /\ hpRet.threw = "none"
    /\ Len(hpRet.args) = 3
    /\ TooFar(hpRet.points[2], PreImage.width, PreImage.height)
    /\ hpRet.points[2] = hpRet.args[2]
    /\ InsideImage(hpRet.points[1], PreImage)
    /\ InsideImage(hpRet.points[3], PreImage)

\* every storage bit of m at a column >= width is zero
PaddingClear(m) ==
    \A k \in 0 .. (Len(m.bits) - 1) : \A b \in WordAt(m.bits, k) :
        32 * (k % m.rowSize) + b < m.width

\* m and o have the same dimensions and the same logical bits
SameLogicalBits(m, o) ==
    /\ m.width = o.width /\ m.height = o.height
    /\ \A p \in Pixels(m) : Get(m, p[1], p[2]) <=> Get(o, p[1], p[2])

\* C28: from a fresh BitMatrix, after any sequence of set, unset, flip, setRegion, clear
\* and xor (with a mask that satisfies the invariant) whose coordinates are in range,
\* every storage bit at a column >= width in the last word of each row is zero, so that
\* two matrices of the same dimensions with the same logical bits have identical storage
\* and compare equal.
C28_PaddingZero ==
    /\ \A id \in DOMAIN objects : PaddingClear(Deref(objects, buffers, id))
    /\ \A id \in DOMAIN objects : \A other \in DOMAIN objects :
          LET m == Deref(objects, buffers, id)
              o == Deref(objects, buffers, other)
          IN SameLogicalBits(m, o) => (m.bits = o.bits /\ Equals(m, o))

\* a matrix that differed from its clone compares equal to it again after a setRegion up
\* to its last column
C28_Witness ==
    /\ hpRet.op = "setRegion"
    /\ hpRet.threw = "none"
    /\ hpRet.args[1] + hpRet.args[3] = Target.width
    /\ Len(objects) = 2
    /\ ~Equals(PreTarget, Deref(hpRet.objects, hpRet.buffers, 3 - hpRet.target))
    /\ Equals(Target, Deref(objects, buffers, 3 - hpRet.target))
    /\ Target.width % 32 # 0

\* the methods of BitSource that only report
Getters == {"getBitOffset", "getByteOffset", "available"}

\* C29: every successful readBits(n) decreases available() by exactly n; the cursor
\* advances only through readBits, as getBitOffset(), getByteOffset() and available()
\* never change byteOffset or bitOffset; and no operation modifies the byte buffer.
C29_Frame ==
    [][ /\ bytes' = bytes
        /\ bsRet'.op \in Getters => (byteOffset' = byteOffset /\ bitOffset' = bitOffset)
        /\ (byteOffset' # byteOffset \/ bitOffset' # bitOffset) =>
              (bsRet'.op = "readBits" /\ bsRet'.threw = "none")
        /\ (bsRet'.op = "readBits" /\ bsRet'.threw = "none") =>
              Available(bytes', byteOffset', bitOffset')
                = Available(bytes, byteOffset, bitOffset) - bsRet'.numBits
      ]_vars

\* available() called with the cursor inside a byte after the first, and reporting what
\* is left
C29_Witness ==
    /\ bsRet.op = "available"
    /\ byteOffset > 0
    /\ bitOffset > 0
    /\ readLog # <<>>
    /\ bsRet.result = ToWord(8 * (Len(bytes) - byteOffset) - bitOffset)
    /\ bsRet.result # {}

-----------------------------------------------------------------------------
(* Claims about GridSamplerInstance, checked under SpecInstance *)

\* the sampler handed to the most recent setGridSampler, or the one of the static
\* initializer when no setGridSampler was called
MostRecent ==
    IF giRet.sets = <<>> THEN DefaultSampler ELSE giRet.sets[Len(giRet.sets)]

\* C25: there is no shared global state: all mutable state is instance-local, and the
\* GridSampler in use is an explicit configuration value rather than a mutable global
\* of the process, so that no call can change which sampler a later, unrelated caller
\* obtains: getInstance() gives every caller what it gives the first.
C25_NoSharedState ==
    /\ gridSampler = DefaultSampler
    /\ giRet.op = "getInstance" => giRet.result = DefaultSampler

\* C27: getInstance() returns a DefaultGridSampler before any setGridSampler call, and
\* after any sequence of setGridSampler calls it returns exactly the sampler handed to
\* the most recent call; getInstance itself never changes the installed sampler.
C27_MostRecentSampler ==
    /\ gridSampler = MostRecent
    /\ giRet.op = "getInstance" =>
          /\ giRet.result = MostRecent
          /\ giRet.sets = <<>> => giRet.result.class = "DefaultGridSampler"
          /\ gridSampler = giRet.pre

\* getInstance() after two setGridSampler calls with different samplers returned the
\* second, a sampler of another class than the first
C27_Witness ==
    /\ giRet.op = "getInstance"
    /\ Len(giRet.sets) = 2
    /\ giRet.sets[1] # giRet.sets[2]
    /\ giRet.sets[1] # DefaultSampler
    /\ giRet.result = giRet.sets[2]
    /\ giRet.result.class = "PlatformGridSampler"

====
